---- MODULE Spec2Model ----
(***************************************************************************)
(* A model of the stockcharts capture-and-analyse pipeline:                *)
(*   - the retry wrapper of src/utils.py (async_retry / retry),            *)
(*   - the capture phase of run_analysis_async (src/main.py): one          *)
(*     process_ticker task per ticker under an asyncio.Semaphore,          *)
(*   - ChartCapture.capture (src/chart_capture.py): two sub-captures       *)
(*     gathered with return_exceptions=True and merged,                    *)
(*   - ClaudeAnalyzer.analyze_batch / analyze (src/claude_analysis.py),    *)
(*   - the report and persist phases of run_analysis_async,                *)
(*   - the start of a run (credentials, the capture semaphore), its        *)
(*     cancellation by an interrupt during the capture phase, and the      *)
(*     exit code of main,                                                  *)
(*   - the browser of a run and the contexts of its sub-captures           *)
(*     (src/browser.py), one call of capture save by save, and the ticker  *)
(*     entries main hands to the run.                                      *)
(*                                                                         *)
(* asyncio is single-threaded and cooperative: an action of the model is   *)
(* the code a task runs between two suspension points.                     *)
(*                                                                         *)
(* Delays are modelled in whole seconds (the two policies of the code use  *)
(* delay=2.0 and backoff=2.0, whose products are exact in floating point). *)
(***************************************************************************)
EXTENDS Integers, Sequences, FiniteSets, TLC

VARIABLES
    \* ---- the retry wrapper on its own (SpecRetry) ----
    retry_policy,           \* the arguments of async_retry(...)
    wrapper,                \* the locals of one call of wrapper(*args)
    \* ---- one run of run_analysis_async (Spec, SpecE2E) ----
    tickers,                \* the tickers argument: a sequence of symbols
    max_concurrent_tickers, \* the max_concurrent_tickers argument
    dry_run,                \* the dry_run argument
    send_email,             \* the send_email argument
    pc,                     \* position of run_analysis_async
    semaphore,              \* value of the capture asyncio.Semaphore
    job,                    \* job[i]: the process_ticker task of tickers[i]
    screenshots,            \* the screenshots dict, in insertion order
    errors,                 \* the errors list
    analysis_semaphore,     \* value of analyze_batch's asyncio.Semaphore
    ajob,                   \* ajob[j]: the analyze_with_limit task of the j-th key
    results,                \* the results list
    email,                  \* what became of the report phase
    results_file,           \* output/results.json as written by this run
    max_concurrent,         \* the max_concurrent argument of analyze_batch
    interrupted,            \* the process was interrupted: the run is cancelled
    returned,               \* what run_analysis_async returned: <<>> or <<value>>
    run_error,              \* the exception that left run_analysis_async
    exit_code,              \* what main returned: <<>> or <<code>>
    \* ---- _parse_response on its own (SpecParse) ----
    response_text,          \* the response_text argument
    parse_out,              \* how the call ended: the result or the error
    \* ---- retry next to async_retry (SpecPair) ----
    blocking,               \* the call of the wrapper made by retry
    outcomes,               \* how the invocations of func end, in order
    peer,                   \* another task of each wrapper's thread
    \* ---- the pages of the sub-captures (SpecBrowser) ----
    sub,                    \* each sub-capture: where it stands, its handles
    browser_contexts,       \* the contexts open in the browser
    browser_pages,          \* the pages open in the browser
    browser,                \* the AsyncBrowserManager of the run
    \* ---- one call of ChartCapture.capture, save by save (SpecCapture) ----
    capture_call,           \* its two sub-captures and what it returned
    \* ---- the log of analyze_batch ----
    analysis_log            \* the "Analysis failed for ..." records, in order

retry_vars == <<retry_policy, wrapper>>

exit_vars == <<returned, run_error, exit_code>>

pair_vars == <<blocking, outcomes, peer>>

page_vars == <<sub, browser_contexts, browser_pages>>

browser_vars == <<page_vars, browser>>

idle_vars == <<response_text, parse_out, pair_vars, browser_vars, capture_call>>

aux_vars == <<idle_vars, analysis_log>>

run_vars == <<tickers, max_concurrent_tickers, dry_run, send_email, pc,
              semaphore, job, screenshots, errors, analysis_semaphore, ajob,
              results, email, results_file, max_concurrent, interrupted,
              returned, run_error, exit_code>>

vars == <<retry_policy, wrapper, tickers, max_concurrent_tickers, dry_run,
          send_email, pc, semaphore, job, screenshots, errors,
          analysis_semaphore, ajob, results, email, results_file,
          max_concurrent, interrupted, returned, run_error, exit_code,
          response_text, parse_out, blocking, outcomes, peer,
          sub, browser_contexts, browser_pages, browser, capture_call,
          analysis_log>>

(***************************************************************************)
(* Bounds of the model.                                                    *)
(***************************************************************************)
MaxAttempts == 3
MaxDelay == 2
MaxBackoff == 2
MaxTickers == 2
MaxPermits == 2
MaxBatch == 3
MaxTextDelta == 2

(***************************************************************************)
(* Program constants.                                                      *)
(***************************************************************************)
CaptureMaxAttempts == 3
CaptureDelay == 2
AnalyzeMaxAttempts == 3
AnalyzeDelay == 2
DefaultBackoff == 2
AnalysisMaxConcurrent == 5
ExitOk == 0
ExitFatal == 1
ExitInterrupted == 130
SummaryLimit == 500

(***************************************************************************)
(* Exceptions.  An error value is the exception class together with the    *)
(* number of the invocation of the wrapped function that raised it, which  *)
(* stands for the identity of the exception object.                        *)
(***************************************************************************)
\* The classes an invocation of a wrapped coroutine can raise.
\* CancelledError derives from BaseException, not from Exception.
RaisedKinds == {"APIError", "OSError", "CancelledError"}

NoError == [kind |-> "None", call |-> 0]

\* isinstance(e, cls) for the classes above.
IsInstance(kind, cls) ==
    \/ cls = kind
    \/ cls = "Exception" /\ kind \in {"APIError", "OSError", "TypeError"}
    \/ cls = "BaseException"

\* a mutant of Matches: the except clause catches everything
MatchesEverything(kind, exceptions) == TRUE

\* "except exceptions as e": whether the clause catches an error of this class.
Matches(kind, exceptions) == \E cls \in exceptions : IsInstance(kind, cls)

(***************************************************************************)
(* The retry wrapper: async_retry(max_attempts, delay, backoff,            *)
(* exceptions).  A wrapper record holds the locals of one call (attempt,   *)
(* current_delay, last_exception), where the call stands (pc: "call" while *)
(* the wrapped function runs, "sleep" in asyncio.sleep, "returned",        *)
(* "raised"), the error it raised, and what an observer of the call sees:  *)
(* calls (invocations of the wrapped function so far), history (how each   *)
(* ended), waits (the sleeps, in order) and warnings (logger.warning       *)
(* calls).                                                                 *)
(***************************************************************************)
Policy(m, d, b, ex) ==
    [max_attempts |-> m, delay |-> d, backoff |-> b, exceptions |-> ex]

\* a mutant of LastException: the first exception is kept
FirstException(previous, e) == IF previous = NoError THEN e ELSE previous

\* last_exception = e
LastException(previous, e) == e

\* a mutant of NextDelay: the backoff is added
NextDelayAdded(current_delay, backoff) == current_delay + backoff

\* current_delay *= backoff
NextDelay(current_delay, backoff) == current_delay * backoff

\* a mutant of MayRetry: the first caught failure ends the loop
MayRetryNever(attempt, max_attempts) == FALSE

\* a mutant of MayRetry: every caught failure is followed by a warning and a
\* wait
MayRetryAlways(attempt, max_attempts) == attempt < max_attempts

\* if attempt < max_attempts - 1
MayRetry(attempt, max_attempts) == attempt < max_attempts - 1

\* The call of wrapper up to the first invocation of func.  With an empty
\* range(max_attempts) the loop body never runs and "raise last_exception"
\* raises None, which Python turns into a TypeError.
WrapperEnter(pol) ==
    LET w0 == [attempt        |-> 0,
               current_delay  |-> pol.delay,
               last_exception |-> NoError,
               pc             |-> "call",
               raised         |-> NoError,
               calls          |-> 0,
               history        |-> <<>>,
               waits          |-> <<>>,
               warnings       |-> 0]
    IN  IF pol.max_attempts >= 1
        THEN [w0 EXCEPT !.calls = 1]
        ELSE [w0 EXCEPT !.pc = "raised",
                        !.raised = [kind |-> "TypeError", call |-> 0]]

\* "return await func(*args, **kwargs)" when func returns.
OnReturn(w) ==
    [w EXCEPT !.pc = "returned", !.history = Append(@, "return")]

\* func raises an exception of class kind.
OnRaise(w, pol, kind) ==
    LET e == [kind |-> kind, call |-> w.calls]
        h == Append(w.history, kind)
    IN  IF ~Matches(kind, pol.exceptions)
        THEN \* not caught: it leaves the wrapper
             [w EXCEPT !.pc = "raised", !.raised = e, !.history = h]
        ELSE IF MayRetry(w.attempt, pol.max_attempts)
        THEN \* warning, then asyncio.sleep(current_delay)
             [w EXCEPT !.last_exception = LastException(@, e),
                       !.warnings = @ + 1,
                       !.waits = Append(@, w.current_delay),
                       !.pc = "sleep",
                       !.history = h]
        ELSE \* the last iteration: the loop ends, raise last_exception
             [w EXCEPT !.last_exception = LastException(@, e),
                       !.pc = "raised",
                       !.raised = LastException(w.last_exception, e),
                       !.history = h]

\* asyncio.sleep returns: current_delay *= backoff, next iteration, func is
\* invoked again.
OnWake(w, pol) ==
    [w EXCEPT !.current_delay = NextDelay(@, pol.backoff),
              !.attempt = @ + 1,
              !.calls = @ + 1,
              !.pc = "call"]

(***************************************************************************)
(* The blocking wrapper: retry(max_attempts, delay, backoff, exceptions),  *)
(* with the same record for the locals and the observations of a call;    *)
(* pc is "sleep" in time.sleep.                                            *)
(***************************************************************************)
\* The call of wrapper up to the first invocation of func.
BlockingEnter(pol) ==
    LET w0 == [attempt        |-> 0,
               current_delay  |-> pol.delay,
               last_exception |-> NoError,
               pc             |-> "call",
               raised         |-> NoError,
               calls          |-> 0,
               history        |-> <<>>,
               waits          |-> <<>>,
               warnings       |-> 0]
    IN  IF 0 < pol.max_attempts
        THEN [w0 EXCEPT !.calls = 1]
        ELSE [w0 EXCEPT !.pc = "raised",
                        !.raised = [kind |-> "TypeError", call |-> 0]]

\* "return func(*args, **kwargs)" when func returns.
BlockingOnReturn(w) ==
    [w EXCEPT !.pc = "returned", !.history = Append(@, "return")]

\* func raises an exception of class kind.
BlockingOnRaise(w, pol, kind) ==
    LET e == [kind |-> kind, call |-> w.calls]
        h == Append(w.history, kind)
    IN  IF ~(\E cls \in pol.exceptions : IsInstance(kind, cls))
        THEN [w EXCEPT !.pc = "raised", !.raised = e, !.history = h]
        ELSE IF w.attempt < pol.max_attempts - 1
        THEN \* warning, then time.sleep(current_delay)
             [w EXCEPT !.last_exception = e,
                       !.warnings = @ + 1,
                       !.waits = Append(@, w.current_delay),
                       !.pc = "sleep",
                       !.history = h]
        ELSE \* the loop ends, raise last_exception
             [w EXCEPT !.last_exception = e,
                       !.pc = "raised",
                       !.raised = e,
                       !.history = h]

\* a mutant of BlockingNextDelay: the delay stays as it is
BlockingDelayKept(current_delay, backoff) == current_delay

\* current_delay *= backoff, in retry
BlockingNextDelay(current_delay, backoff) == current_delay * backoff

\* time.sleep returns: current_delay *= backoff, next iteration, func is
\* invoked again.
BlockingOnWake(w, pol) ==
    [w EXCEPT !.current_delay = BlockingNextDelay(@, pol.backoff),
              !.attempt = @ + 1,
              !.calls = @ + 1,
              !.pc = "call"]

\* Another task of the thread a wrapper runs in, which has one step to take:
\* one for the event loop of the async wrapper, one for the thread of the
\* blocking wrapper.
PeersIdle == [async |-> "ready", blocking |-> "ready"]

\* A wrapper that is not in use.
IdleWrapper == [WrapperEnter(Policy(1, 0, 0, {})) EXCEPT !.pc = "idle", !.calls = 0]

\* @async_retry(max_attempts=3, delay=2.0, exceptions=(Exception,)) on capture
CapturePolicy ==
    Policy(CaptureMaxAttempts, CaptureDelay, DefaultBackoff, {"Exception"})

\* @async_retry(max_attempts=3, delay=2.0, exceptions=(anthropic.APIError,))
AnalyzePolicy ==
    Policy(AnalyzeMaxAttempts, AnalyzeDelay, DefaultBackoff, {"APIError"})

(***************************************************************************)
(* The retry wrapper on its own: every policy within the bounds, applied   *)
(* to a function that on each invocation returns or raises one of          *)
(* RaisedKinds.                                                            *)
(***************************************************************************)
RetryPolicies ==
    { Policy(m, d, b, ex) : m \in 0..MaxAttempts, d \in 1..MaxDelay,
                            b \in 1..MaxBackoff,
                            ex \in {{"APIError"}, {"Exception"}} }

\* No exception has left run_analysis_async.
NoRunError == [kind |-> "None", at |-> "none"]

\* a mutant of ExitCode: KeyboardInterrupt is handled like any other error
ExitCodeNoInterrupt(error) ==
    IF error = NoRunError THEN ExitOk ELSE ExitFatal

\* What main returns once asyncio.run(run_analysis_async(...)) is over: 0
\* when it returned, 130 on KeyboardInterrupt, 1 on any other exception.
ExitCode(error) ==
    IF error = NoRunError THEN ExitOk
    ELSE IF error.kind = "KeyboardInterrupt" THEN ExitInterrupted
    ELSE ExitFatal

(***************************************************************************)
(* Response texts and analysis results (claude_analysis.py).               *)
(***************************************************************************)
\* A Python string that is a piece of a response: the first len characters of
\* the text it is taken of.  The empty string is the same whatever it is
\* taken of.
EmptyText == [of |-> "literal", len |-> 0]

Text(of, len) == IF len = 0 THEN EmptyText ELSE [of |-> of, len |-> len]

\* The place of a string-valued key that a JSON object lacks.
AbsentText == [of |-> "absent", len |-> 0]

\* The fields of AnalysisResult the model follows; the list and dict fields
\* (patterns_identified, support_levels, resistance_levels, rsi,
\* key_observations), analysis_date and volume_assessment are copied in the
\* same way as secondary_trend.  signal and confidence are the two entries of
\* the recommendation dict, "absent" when the dict lacks them.
ResultFields ==
    {"symbol", "primary_trend", "secondary_trend", "signal", "confidence",
     "summary", "raw_response"}

NoResult ==
    [symbol |-> "none", primary_trend |-> "none", secondary_trend |-> "none",
     signal |-> "none", confidence |-> "none", summary |-> EmptyText,
     raw_response |-> EmptyText]

\* A response text, by what re.search and json.loads make of it:
\*   "plain"   there is no "{...}" in it,
\*   "braces"  it has a "{...}" on which json.loads raises JSONDecodeError,
\*   "object"  it has a "{...}" that is a JSON object, with the fields given
\*             ("absent" for a key the object lacks),
\*   "deep"    it has a "{...}" on which json.loads raises another error:
\*             RecursionError for brackets nested beyond the recursion
\*             limit, ValueError for an integer of more than 4300 digits.
\* len is the number of its characters.
ResponseText(form, len, symbol, trend, signal, confidence, summary) ==
    [form |-> form, len |-> len, symbol |-> symbol, primary_trend |-> trend,
     secondary_trend |-> trend, signal |-> signal, confidence |-> confidence,
     summary |-> summary]

(***************************************************************************)
(* Browser contexts and pages (browser.py).  A context is named after the  *)
(* call of new_context that makes it: the sub-capture whose "async with    *)
(* browser.new_page()" makes the call.  A page is named after its context  *)
(* and its number in it.                                                   *)
(***************************************************************************)
SubKinds == {"candlestick", "pnf"}

NoContext == <<"none", "none">>

NoPage == [context |-> NoContext, n |-> 0]

\* A sub-capture that has not entered "async with browser.new_page()".
NewSub == [pc |-> "start", context |-> NoContext, page |-> NoPage,
           exit |-> "none"]

\* No sub-capture is under way.
BrowserIdle ==
    /\ sub = <<>>
    /\ browser_contexts = {}
    /\ browser_pages = {}
    /\ browser = "none"

\* A sub-capture of a call of capture: where it stands, the dict it builds
\* (its keys) and the kinds whose save reported success.
IdleSubCapture == [pc |-> "idle", result |-> {}, saved |-> {}]

\* No call of capture is followed save by save.
CaptureIdle ==
    [candle |-> IdleSubCapture, pnf |-> IdleSubCapture, merged |-> <<>>]

\* The state while _parse_response is not exercised.
NotParsed == [raised |-> "None", result |-> NoResult, done |-> FALSE]

AuxIdle ==
    /\ response_text = ResponseText("plain", 0, "absent", "absent", "absent",
                                    "absent", AbsentText)
    /\ parse_out = NotParsed
    /\ blocking = IdleWrapper
    /\ outcomes = <<>>
    /\ peer = PeersIdle
    /\ BrowserIdle
    /\ analysis_log = <<>>
    /\ capture_call = CaptureIdle

\* The state of the run while only the wrapper is exercised.
RunIdle ==
    /\ tickers = <<>>
    /\ max_concurrent_tickers = 0
    /\ dry_run = FALSE
    /\ send_email = FALSE
    /\ pc = "idle"
    /\ semaphore = 0
    /\ job = <<>>
    /\ screenshots = <<>>
    /\ errors = <<>>
    /\ analysis_semaphore = 0
    /\ ajob = <<>>
    /\ results = <<>>
    /\ email = "none"
    /\ results_file = <<>>
    /\ max_concurrent = 0
    /\ interrupted = FALSE
    /\ returned = <<>>
    /\ run_error = NoRunError
    /\ exit_code = <<>>

InitRetry ==
    /\ AuxIdle
    /\ retry_policy \in RetryPolicies
    /\ wrapper = WrapperEnter(retry_policy)
    /\ RunIdle

FuncReturns ==
    /\ wrapper.pc = "call"
    /\ wrapper' = OnReturn(wrapper)
    /\ UNCHANGED <<retry_policy, run_vars, aux_vars>>

FuncRaises ==
    /\ wrapper.pc = "call"
    /\ \E kind \in RaisedKinds : wrapper' = OnRaise(wrapper, retry_policy, kind)
    /\ UNCHANGED <<retry_policy, run_vars, aux_vars>>

SleepEnds ==
    /\ wrapper.pc = "sleep"
    /\ wrapper' = OnWake(wrapper, retry_policy)
    /\ UNCHANGED <<retry_policy, run_vars, aux_vars>>

NextRetry == FuncReturns \/ FuncRaises \/ SleepEnds

SpecRetry == InitRetry /\ [][NextRetry]_vars

(***************************************************************************)
(* Artifacts.  An artifact set (the dict capture returns) is modelled by   *)
(* its set of keys: the path under a key is fixed by the symbol and the    *)
(* key, output/screenshots/{symbol}_{key}.png.                             *)
(***************************************************************************)
Kinds == {"daily", "weekly", "pnf_daily", "pnf_weekly"}

\* What _capture_candlestick_charts returns when it does not raise.
CandlestickResults == {{"daily", "weekly"}}

\* What _capture_pnf_charts returns when it does not raise.
PnfResults == {{"pnf_daily", "pnf_weekly"}}

Pending == [state |-> "pending", paths |-> {}]

\* A sub-capture that goes on after its cancellation was delivered and
\* swallowed.
Swallowed == [state |-> "swallowed", paths |-> {}]
Raised == [state |-> "exc", paths |-> {}]
Returned(paths) == [state |-> "dict", paths |-> paths]

\* "merged.update(r)" for the dict results; an exception is only logged.
Merge(candle, pnf) ==
    (IF candle.state = "dict" THEN candle.paths ELSE {})
        \cup (IF pnf.state = "dict" THEN pnf.paths ELSE {})

(***************************************************************************)
(* A Python dict, kept as the sequence of its items in insertion order.    *)
(***************************************************************************)
DictKeys(d) == { d[n].key : n \in 1..Len(d) }

DictHas(d, k) == k \in DictKeys(d)

DictGet(d, k) == d[CHOOSE n \in 1..Len(d) : d[n].key = k].val

\* d[k] = v: a new key goes last, an old key keeps its place.
DictSet(d, k, v) ==
    IF DictHas(d, k)
    THEN [n \in 1..Len(d) |-> IF d[n].key = k THEN [key |-> k, val |-> v] ELSE d[n]]
    ELSE Append(d, [key |-> k, val |-> v])

(***************************************************************************)
(* The capture phase: run_analysis_async, lines 114-144.                   *)
(***************************************************************************)
NoReturn == [tag |-> "none", paths |-> {}, error |-> NoError]

NewJob ==
    [pc |-> "start", candle |-> Pending, pnf |-> Pending,
     w |-> IdleWrapper, ret |-> NoReturn]

Jobs == 1..Len(tickers)

\* a mutant of CanAcquire: a permit is handed out at zero as well
CanAcquireAtZero(value) == value >= 0

\* a mutant of CanAcquire: the permit count is not looked at
CanAcquireAlways(value) == TRUE

\* asyncio.Semaphore.acquire returns without waiting iff the value is positive.
CanAcquire(value) == value > 0

\* a mutant of Release: the permit is not given back
ReleaseLeak(value) == value

\* Leaving "async with semaphore", by return or by exception, releases the
\* permit.
Release(value) == value + 1

\* a mutant of AllSettled: the gather returns with the first task that is done
AnySettled(tasks) == \E n \in 1..Len(tasks) : tasks[n].pc = "done"

\* asyncio.gather(*tasks, return_exceptions=True) returns when every task is
\* done, whether it returned or raised.
AllSettled(tasks) == \A n \in 1..Len(tasks) : tasks[n].pc = "done"

\* What the process_ticker task of a symbol ends with, given how the call of
\* chart_capture.capture (the wrapper w) ended: the try/except of lines
\* 123-128; anything not an Exception ends the task itself.
ProcessTickerResult(w, paths) ==
    IF w.pc = "returned"
    THEN [tag |-> "paths", paths |-> paths, error |-> NoError]
    ELSE IF IsInstance(w.raised.kind, "Exception")
    THEN [tag |-> "error", paths |-> {}, error |-> w.raised]
    ELSE [tag |-> "raised", paths |-> {}, error |-> w.raised]

\* "async with semaphore": the task takes a permit, logs, calls
\* chart_capture.capture, whose wrapper invokes capture, which starts its two
\* sub-captures with asyncio.gather.
Acquire(i) ==
    /\ pc = "capture"
    /\ ~interrupted
    /\ job[i].pc = "start"
    /\ CanAcquire(semaphore)
    /\ semaphore' = semaphore - 1
    /\ job' = [job EXCEPT ![i].pc = "held",
                          ![i].w = WrapperEnter(CapturePolicy)]
    /\ UNCHANGED <<aux_vars, retry_vars, exit_vars, interrupted,
                   max_concurrent,
                   tickers, max_concurrent_tickers, dry_run,
                   send_email, pc, screenshots, errors, analysis_semaphore,
                   ajob, results, email, results_file>>

\* The artifact file of a symbol and a kind:
\* output/screenshots/{symbol}_{kind}.png.
ArtifactFile(symbol, kind) == <<symbol, kind>>

\* The files that the sub-captures of a task which are under way write.
FilesInFlight(i) ==
    IF job[i].pc # "held" THEN {}
    ELSE { ArtifactFile(tickers[i], kind) :
             kind \in (IF job[i].candle.state \in {"pending", "swallowed"}
                        THEN {"daily", "weekly"} ELSE {})
                  \cup (IF job[i].pnf.state = "pending"
                         THEN {"pnf_daily", "pnf_weekly"} ELSE {}) }

\* capture_candlestick ends: a dict, or an exception (browser.new_page,
\* page.goto or wait_for_selector raised), which gather keeps as a value.
CandlestickSettles(i) ==
    /\ pc = "capture"
    /\ ~interrupted
    /\ job[i].pc = "held"
    /\ job[i].candle.state = "pending"
    /\ \E r \in {Returned(p) : p \in CandlestickResults} \cup {Raised} :
          job' = [job EXCEPT ![i].candle = r]
    /\ UNCHANGED <<aux_vars, retry_vars, exit_vars, interrupted,
                   max_concurrent,
                   tickers, max_concurrent_tickers, dry_run,
                   send_email, pc, semaphore, screenshots, errors,
                   analysis_semaphore, ajob, results, email, results_file>>

\* capture_pnf ends: a dict, or an exception (browser.new_page raised).
PnfSettles(i) ==
    /\ pc = "capture"
    /\ ~interrupted
    /\ job[i].pc = "held"
    /\ job[i].pnf.state = "pending"
    /\ \E r \in {Returned(p) : p \in PnfResults} \cup {Raised} :
          job' = [job EXCEPT ![i].pnf = r]
    /\ UNCHANGED <<aux_vars, retry_vars, exit_vars, interrupted,
                   max_concurrent,
                   tickers, max_concurrent_tickers, dry_run,
                   send_email, pc, semaphore, screenshots, errors,
                   analysis_semaphore, ajob, results, email, results_file>>

\* The gather of capture is complete: capture merges and returns, its wrapper
\* returns, process_ticker returns (symbol, paths) and leaves "async with",
\* which releases the permit.
CaptureReturns(i) ==
    /\ pc = "capture"
    /\ ~interrupted
    /\ job[i].pc = "held"
    /\ job[i].candle.state # "pending"
    /\ job[i].pnf.state # "pending"
    /\ LET w == OnReturn(job[i].w)
       IN  job' = [job EXCEPT
                     ![i].w = w,
                     ![i].ret = ProcessTickerResult(w, Merge(job[i].candle, job[i].pnf)),
                     ![i].pc = "done"]
    /\ semaphore' = Release(semaphore)
    /\ UNCHANGED <<aux_vars, retry_vars, exit_vars, interrupted,
                   max_concurrent,
                   tickers, max_concurrent_tickers, dry_run,
                   send_email, pc, screenshots, errors, analysis_semaphore,
                   ajob, results, email, results_file>>

\* The process is interrupted while the capture phase runs: asyncio.run
\* cancels the task of run_analysis_async, whose gather cancels every
\* process_ticker task that is not done.
Interrupt ==
    /\ pc = "capture"
    /\ ~interrupted
    /\ interrupted' = TRUE
    /\ UNCHANGED <<aux_vars, retry_vars, exit_vars, max_concurrent, tickers,
                   max_concurrent_tickers, dry_run, send_email, pc, semaphore,
                   job, screenshots, errors, analysis_semaphore, ajob,
                   results, email, results_file>>

CancelledError == [kind |-> "CancelledError", call |-> 0]

\* The cancellation reaches capture_candlestick while _set_period or
\* _set_range awaits option.is_visible or option.click inside
\* "try: ... except: continue": the bare except catches CancelledError and
\* the sub-capture goes on with the next selector and the steps after it.
CancelSwallowed(i) ==
    /\ pc = "capture"
    /\ interrupted
    /\ job[i].pc = "held"
    /\ job[i].candle.state = "pending"
    /\ job' = [job EXCEPT ![i].candle = Swallowed]
    /\ UNCHANGED <<aux_vars, retry_vars, exit_vars, interrupted,
                   max_concurrent,
                   tickers, max_concurrent_tickers, dry_run,
                   send_email, pc, semaphore, screenshots, errors,
                   analysis_semaphore, ajob, results, email, results_file>>

\* A sub-capture that swallowed its cancellation ends, having taken its
\* remaining steps: a dict, or an exception.
SwallowedCaptureSettles(i) ==
    /\ pc = "capture"
    /\ interrupted
    /\ job[i].pc = "held"
    /\ job[i].candle.state = "swallowed"
    /\ \E r \in {Returned(p) : p \in CandlestickResults} \cup {Raised} :
          job' = [job EXCEPT ![i].candle = r]
    /\ UNCHANGED <<aux_vars, retry_vars, exit_vars, interrupted,
                   max_concurrent,
                   tickers, max_concurrent_tickers, dry_run,
                   send_email, pc, semaphore, screenshots, errors,
                   analysis_semaphore, ajob, results, email, results_file>>

\* A cancelled process_ticker task runs its cancellation.  While it waits for
\* the permit, acquire raises CancelledError and no permit is taken.  While it
\* holds the permit, the gather of capture, once its sub-captures are over,
\* raises CancelledError whatever they returned, which the wrapper and
\* "except Exception" let through, and "async with" releases the permit.
Cancelled(i) ==
    /\ pc = "capture"
    /\ interrupted
    /\ job[i].pc \in {"start", "held"}
    /\ job[i].candle.state # "swallowed"
    /\ IF job[i].pc = "held"
       THEN /\ LET w == OnRaise(job[i].w, CapturePolicy, "CancelledError")
               IN  job' = [job EXCEPT
                             ![i].w = w,
                             ![i].ret = ProcessTickerResult(w, {}),
                             ![i].pc = "done"]
            /\ semaphore' = Release(semaphore)
       ELSE /\ job' = [job EXCEPT
                         ![i].ret = [tag |-> "raised", paths |-> {},
                                     error |-> CancelledError],
                         ![i].pc = "done"]
            /\ UNCHANGED semaphore
    /\ UNCHANGED <<aux_vars, retry_vars, exit_vars, interrupted,
                   max_concurrent,
                   tickers, max_concurrent_tickers, dry_run, send_email, pc,
                   screenshots, errors, analysis_semaphore, ajob, results,
                   email, results_file>>

\* a mutant of RunCancelled: the cancellation leaves the browser running
RunCancelledBrowserLeft ==
    /\ pc = "capture"
    /\ interrupted
    /\ AllSettled(job)
    /\ pc' = "raised"
    /\ run_error' = [kind |-> "KeyboardInterrupt", at |-> "capture"]
    /\ exit_code' = <<ExitCode(run_error')>>
    /\ UNCHANGED <<aux_vars, retry_vars, returned, interrupted,
                   max_concurrent, tickers, max_concurrent_tickers, dry_run,
                   send_email, semaphore, job, screenshots, errors,
                   analysis_semaphore, ajob, results, email, results_file>>

\* Every task has run its cancellation: the gather of line 131 raises
\* CancelledError in run_analysis_async, the browser is stopped, and
\* asyncio.run raises KeyboardInterrupt.
RunCancelled ==
    /\ pc = "capture"
    /\ interrupted
    /\ AllSettled(job)
    /\ pc' = "raised"
    /\ run_error' = [kind |-> "KeyboardInterrupt", at |-> "capture"]
    /\ exit_code' = <<ExitCode(run_error')>>
    /\ browser' = "stopped"
    /\ UNCHANGED <<response_text, parse_out, pair_vars, analysis_log,
                   page_vars, capture_call,
                   retry_vars, returned, interrupted,
                   max_concurrent, tickers, max_concurrent_tickers, dry_run,
                   send_email, semaphore, job, screenshots, errors,
                   analysis_semaphore, ajob, results, email, results_file>>

\* a mutant of Record: an empty artifact set is not stored
RecordDropsEmpty(acc, symbol, r) ==
    IF r.tag = "raised"
    THEN [acc EXCEPT !.errors =
             Append(@, [symbol |-> "unknown", error |-> r.error])]
    ELSE IF r.tag = "error"
    THEN [acc EXCEPT !.errors = Append(@, [symbol |-> symbol, error |-> r.error])]
    ELSE IF r.paths = {} THEN acc
    ELSE [acc EXCEPT !.screenshots = DictSet(@, symbol, r.paths)]

\* The body of the loop of lines 136-144 for the result r of the task of a
\* symbol: an exception that ended the task goes to errors under "unknown",
\* a (symbol, exception) result goes to errors under the symbol, and a
\* (symbol, paths) result is stored in screenshots.
Record(acc, symbol, r) ==
    IF r.tag = "raised"
    THEN [acc EXCEPT !.errors =
             Append(@, [symbol |-> "unknown", error |-> r.error])]
    ELSE IF r.tag = "error"
    THEN [acc EXCEPT !.errors = Append(@, [symbol |-> symbol, error |-> r.error])]
    ELSE [acc EXCEPT !.screenshots = DictSet(@, symbol, r.paths)]

\* a mutant of Aggregate: the results are taken last to first
RECURSIVE AggregateBackwards(_, _)
AggregateBackwards(i, acc) ==
    IF i > Len(tickers) THEN acc
    ELSE Record(AggregateBackwards(i + 1, acc), tickers[i], job[i].ret)

\* The loop of lines 136-144 over capture_results[i..], which asyncio.gather
\* returns in the order of tickers.
RECURSIVE Aggregate(_, _)
Aggregate(i, acc) ==
    IF i > Len(tickers) THEN acc
    ELSE Aggregate(i + 1, Record(acc, tickers[i], job[i].ret))

(***************************************************************************)
(* The analysis phase: ClaudeAnalyzer.analyze_batch and analyze.           *)
(***************************************************************************)
\* text[:n]
Slice(text, n) == IF text.len > n THEN Text(text.of, n) ELSE text

NewAnalysisJob == [pc |-> "start", w |-> IdleWrapper, result |-> NoResult]

AnalysisJobs == 1..Len(ajob)

\* The whole response text as a string.
RawText(resp) == Text("response", resp.len)

\* The response texts the service may send for a symbol in a run: a JSON
\* object in the format asked for, or text with no JSON object in it.
Responses(symbol) ==
    { ResponseText("object", 40, symbol, "BULLISH", "BUY", "HIGH",
                   Text("summary", 10)),
      ResponseText("plain", 40, "absent", "absent", "absent", "absent",
                   AbsentText) }

\* json.loads raises an error that "except json.JSONDecodeError" does not
\* catch: it leaves _parse_response.
ParseRaises(resp) == resp.form = "deep"

\* data.get(key, default)
Get(value, default) == IF value = "absent" THEN default ELSE value

\* data.get(key, default) for a key whose value is a string of the response
GetText(value, default) == IF value = AbsentText THEN default ELSE value

\* _parse_response when it returns: the fields of the JSON object (data.get
\* with defaults), or the fallback result.
ParseResponse(resp, symbol) ==
    IF resp.form = "object"
    THEN [symbol          |-> Get(resp.symbol, symbol),
          primary_trend   |-> Get(resp.primary_trend, "NEUTRAL"),
          secondary_trend |-> Get(resp.secondary_trend, "NEUTRAL"),
          signal          |-> resp.signal,
          confidence      |-> resp.confidence,
          summary         |-> GetText(resp.summary, EmptyText),
          raw_response    |-> RawText(resp)]
    ELSE [symbol |-> symbol, primary_trend |-> "UNKNOWN",
          secondary_trend |-> "UNKNOWN", signal |-> "HOLD",
          confidence |-> "LOW",
          summary |-> IF resp.len > SummaryLimit
                      THEN Slice(RawText(resp), SummaryLimit)
                      ELSE RawText(resp),
          raw_response |-> RawText(resp)]

(***************************************************************************)
(* _parse_response on its own: every response text within the bounds,      *)
(* parsed for the symbol AAA.                                              *)
(***************************************************************************)
\* The lengths of a response text: empty, and around the summary limit.
TextLengths ==
    {0} \cup ((SummaryLimit - MaxTextDelta)..(SummaryLimit + MaxTextDelta))

ResponseTexts ==
    { ResponseText(form, len, "absent", "absent", "absent", "absent", AbsentText) :
        form \in {"plain", "braces", "deep"}, len \in TextLengths \ {0} }
    \cup { ResponseText("plain", 0, "absent", "absent", "absent", "absent",
                        AbsentText) }
    \cup { ResponseText("object", len, symbol, trend, rec[1], rec[2], summary) :
             len \in TextLengths \ {0},
             symbol \in {"absent", "AAA"},
             trend \in {"absent", "BEARISH"},
             rec \in {<<"absent", "absent">>, <<"SELL", "MEDIUM">>},
             summary \in {AbsentText, Text("summary", 10)} }

\* One call of _parse_response(response_text, "AAA").
Parse ==
    /\ ~parse_out.done
    /\ parse_out' =
          IF ParseRaises(response_text)
          THEN [raised |-> "RecursionError", result |-> NoResult, done |-> TRUE]
          ELSE [raised |-> "None",
                result |-> ParseResponse(response_text, "AAA"),
                done |-> TRUE]
    /\ UNCHANGED <<retry_vars, run_vars, response_text, pair_vars,
                   analysis_log,
                   browser_vars, capture_call>>

\* The classes an invocation of analyze raises: anthropic.APIError from
\* messages.create, or another exception (reading an image file, an empty
\* message.content).
AnalyzeRaisedKinds == {"APIError", "OSError"}

\* The end of the capture phase: every process_ticker task is done, the browser
\* is stopped, and run_analysis_async goes on to "if not dry_run and
\* screenshots", where analyze_batch creates one task per key of screenshots.
CaptureDone ==
    /\ pc = "capture"
    /\ ~interrupted
    /\ AllSettled(job)
    /\ LET acc == Aggregate(1, [screenshots |-> screenshots, errors |-> errors])
       IN  /\ screenshots' = acc.screenshots
           /\ errors' = acc.errors
           /\ IF ~dry_run /\ acc.screenshots # <<>>
              THEN /\ pc' = "analyze"
                   /\ max_concurrent' = AnalysisMaxConcurrent
                   /\ analysis_semaphore' = AnalysisMaxConcurrent
                   /\ ajob' = [j \in 1..Len(acc.screenshots) |-> NewAnalysisJob]
              ELSE /\ pc' = "report"
                   /\ UNCHANGED <<max_concurrent, analysis_semaphore, ajob>>
    /\ browser' = "stopped"
    /\ UNCHANGED <<response_text, parse_out, pair_vars, analysis_log,
                   page_vars, capture_call,
                   retry_vars, exit_vars, interrupted,
                   tickers, max_concurrent_tickers, dry_run,
                   send_email, semaphore, job, results, email, results_file>>

\* analyze_with_limit takes a permit and calls analyze, whose wrapper invokes
\* it: the content is built and the request is sent.
AnalyzeAcquire(j) ==
    /\ pc = "analyze"
    /\ ajob[j].pc = "start"
    /\ CanAcquire(analysis_semaphore)
    /\ analysis_semaphore' = analysis_semaphore - 1
    /\ ajob' = [ajob EXCEPT ![j].pc = "held",
                            ![j].w = WrapperEnter(AnalyzePolicy)]
    /\ UNCHANGED <<aux_vars, retry_vars, exit_vars, interrupted,
                   max_concurrent,
                   tickers, max_concurrent_tickers, dry_run,
                   send_email, pc, semaphore, job, screenshots, errors,
                   results, email, results_file>>

\* messages.create returns: the response is parsed, analyze and its wrapper
\* return, the permit is released.
AnalyzeReturns(j) ==
    /\ pc = "analyze"
    /\ ajob[j].pc = "held"
    /\ ajob[j].w.pc = "call"
    /\ \E resp \in Responses(screenshots[j].key) :
          ajob' = [ajob EXCEPT
                     ![j].w = OnReturn(@),
                     ![j].result = ParseResponse(resp, screenshots[j].key),
                     ![j].pc = "done"]
    /\ analysis_semaphore' = Release(analysis_semaphore)
    /\ UNCHANGED <<aux_vars, retry_vars, exit_vars, interrupted,
                   max_concurrent,
                   tickers, max_concurrent_tickers, dry_run,
                   send_email, pc, semaphore, job, screenshots, errors,
                   results, email, results_file>>

\* a mutant of AnalyzeRaises: the permit is given back for the time of the
\* backoff wait
AnalyzeRaisesFreesPermit(j) ==
    /\ pc = "analyze"
    /\ ajob[j].pc = "held"
    /\ ajob[j].w.pc = "call"
    /\ \E kind \in AnalyzeRaisedKinds :
          LET w == OnRaise(ajob[j].w, AnalyzePolicy, kind)
          IN  /\ ajob' = [ajob EXCEPT
                            ![j].w = w,
                            ![j].pc = IF w.pc = "raised" THEN "done" ELSE @]
              /\ analysis_semaphore' = Release(analysis_semaphore)
    /\ UNCHANGED <<aux_vars, retry_vars, exit_vars, interrupted,
                   max_concurrent,
                   tickers, max_concurrent_tickers, dry_run,
                   send_email, pc, semaphore, job, screenshots, errors,
                   results, email, results_file>>

\* analyze raises: the wrapper sleeps before another attempt, or raises, which
\* ends the task and releases the permit.
AnalyzeRaises(j) ==
    /\ pc = "analyze"
    /\ ajob[j].pc = "held"
    /\ ajob[j].w.pc = "call"
    /\ \E kind \in AnalyzeRaisedKinds :
          LET w == OnRaise(ajob[j].w, AnalyzePolicy, kind)
          IN  /\ ajob' = [ajob EXCEPT
                            ![j].w = w,
                            ![j].pc = IF w.pc = "raised" THEN "done" ELSE @]
              /\ analysis_semaphore' =
                    IF w.pc = "raised" THEN Release(analysis_semaphore)
                    ELSE analysis_semaphore
    /\ UNCHANGED <<aux_vars, retry_vars, exit_vars, interrupted,
                   max_concurrent,
                   tickers, max_concurrent_tickers, dry_run,
                   send_email, pc, semaphore, job, screenshots, errors,
                   results, email, results_file>>

\* asyncio.sleep of the wrapper of analyze returns: the next request is sent.
AnalyzeBackoffEnds(j) ==
    /\ pc = "analyze"
    /\ ajob[j].pc = "held"
    /\ ajob[j].w.pc = "sleep"
    /\ ajob' = [ajob EXCEPT ![j].w = OnWake(@, AnalyzePolicy)]
    /\ UNCHANGED <<aux_vars, retry_vars, exit_vars, interrupted,
                   max_concurrent,
                   tickers, max_concurrent_tickers, dry_run,
                   send_email, pc, semaphore, job, screenshots, errors,
                   analysis_semaphore, results, email, results_file>>

\* a mutant of ValidResults: the first exception ends the list, as a gather
\* without return_exceptions would
RECURSIVE ValidResultsUntilFailure(_)
ValidResultsUntilFailure(j) ==
    IF j > Len(ajob) \/ ajob[j].w.pc # "returned" THEN <<>>
    ELSE <<ajob[j].result>> \o ValidResultsUntilFailure(j + 1)

\* valid_results: the results of the tasks that returned, in the order of the
\* keys; an exception is logged and dropped.
RECURSIVE ValidResults(_)
ValidResults(j) ==
    IF j > Len(ajob) THEN <<>>
    ELSE (IF ajob[j].w.pc = "returned" THEN <<ajob[j].result>> ELSE <<>>)
            \o ValidResults(j + 1)

\* a mutant of FailureLog: the k-th failure is logged under the k-th key
RECURSIVE FailureLogByPosition(_)
FailureLogByPosition(j) ==
    IF j > Len(ajob) THEN <<>>
    ELSE IF ajob[j].w.pc = "returned" THEN FailureLogByPosition(j + 1)
    ELSE LET k == Cardinality({ i \in 1..j : ajob[i].w.pc # "returned" })
         IN  <<[symbol |-> screenshots[k].key,
                error |-> ajob[j].w.raised.kind]>>
                \o FailureLogByPosition(j + 1)

\* The records logger.error writes in the loop over zip(keys, results), from
\* the j-th pair on: "Analysis failed for {symbol}: {result}" for a result
\* that is an exception, the symbol being the key of the same position.
RECURSIVE FailureLog(_)
FailureLog(j) ==
    IF j > Len(ajob) THEN <<>>
    ELSE IF ajob[j].w.pc = "returned" THEN FailureLog(j + 1)
    ELSE <<[symbol |-> screenshots[j].key,
            error |-> ajob[j].w.raised.kind]>>
            \o FailureLog(j + 1)

\* The gather of analyze_batch is complete: the loop over the pairs of keys
\* and results logs the failures and collects the results.
AnalyzeBatchReturns ==
    /\ pc = "analyze"
    /\ AllSettled(ajob)
    /\ results' = ValidResults(1)
    /\ analysis_log' = FailureLog(1)
    /\ pc' = "report"
    /\ UNCHANGED <<idle_vars, retry_vars, exit_vars, interrupted,
                   max_concurrent,
                   tickers, max_concurrent_tickers, dry_run,
                   send_email, semaphore, job, screenshots, errors,
                   analysis_semaphore, ajob, email, results_file>>

(***************************************************************************)
(* The report and persist phases: run_analysis_async, lines 160-195.       *)
(***************************************************************************)
\* "if send_email and not dry_run and results"
ShouldReport == send_email /\ ~dry_run /\ results # <<>>

\* email_sender.send_report returns.
ReportSent ==
    /\ pc = "report"
    /\ ShouldReport
    /\ email' = "sent"
    /\ pc' = "persist"
    /\ UNCHANGED <<aux_vars, retry_vars, exit_vars, interrupted,
                   max_concurrent,
                   tickers, max_concurrent_tickers, dry_run,
                   send_email, semaphore, job, screenshots, errors,
                   analysis_semaphore, ajob, results, results_file>>

\* email_sender.send_report raises: logged, ("email", e) appended.
ReportFails ==
    /\ pc = "report"
    /\ ShouldReport
    /\ email' = "failed"
    /\ errors' = Append(errors, [symbol |-> "email",
                                 error |-> [kind |-> "OSError", call |-> 1]])
    /\ pc' = "persist"
    /\ UNCHANGED <<aux_vars, retry_vars, exit_vars, interrupted,
                   max_concurrent,
                   tickers, max_concurrent_tickers, dry_run,
                   send_email, semaphore, job, screenshots,
                   analysis_semaphore, ajob, results, results_file>>

\* EmailSender(config), line 162, stands before the try: when GMAIL_ADDRESS or
\* GMAIL_APP_PASSWORD is not set, ensure_env_vars raises EnvironmentError,
\* which leaves run_analysis_async.
ReportCredentialsMissing ==
    /\ pc = "report"
    /\ ShouldReport
    /\ pc' = "raised"
    /\ run_error' = [kind |-> "EnvironmentError", at |-> "report"]
    /\ exit_code' = <<ExitCode(run_error')>>
    /\ UNCHANGED <<aux_vars, retry_vars, returned, interrupted,
                   max_concurrent, tickers, max_concurrent_tickers, dry_run,
                   send_email, semaphore, job, screenshots, errors,
                   analysis_semaphore, ajob, results, email, results_file>>

ReportSkipped ==
    /\ pc = "report"
    /\ ~ShouldReport
    /\ email' = "skipped"
    /\ pc' = "persist"
    /\ UNCHANGED <<aux_vars, retry_vars, exit_vars, interrupted,
                   max_concurrent,
                   tickers, max_concurrent_tickers, dry_run,
                   send_email, semaphore, job, screenshots, errors,
                   analysis_semaphore, ajob, results, results_file>>

\* "if results:" of line 170
ShouldPersist(rs) == rs # <<>>

\* The fields of a result that the document carries: all but raw_response.
PersistedFields == ResultFields \ {"raw_response"}

\* The object written for one result, lines 176-189.  Its values are strings
\* (and lists and dicts of JSON values), which json.dumps writes and
\* json.loads reads back unchanged.
PersistedObject(r) == [f \in PersistedFields |-> r[f]]

\* a mutant of ResultsDocument: the objects are written last to first
ResultsDocumentReversed(rs) ==
    <<[run_at  |-> "now",
       results |-> [k \in 1..Len(rs) |-> PersistedObject(rs[Len(rs) + 1 - k])]]>>

\* The document of lines 174-193: run_at and one object per result, in the
\* order of results.
ResultsDocument(rs) ==
    <<[run_at  |-> "now",
       results |-> [k \in 1..Len(rs) |-> PersistedObject(rs[k])]]>>

\* a mutant of ReturnValue: the results are left out
ReturnValueNoResults(rs, shots) == [results |-> <<>>, screenshots |-> shots]

\* "return results, screenshots" of line 205.
ReturnValue(rs, shots) == [results |-> rs, screenshots |-> shots]

\* Phase 4, then the summary, which logs the error list, and the return, on
\* which main prints the results and returns.
Persist ==
    /\ pc = "persist"
    /\ results_file' = IF ShouldPersist(results) THEN ResultsDocument(results)
                       ELSE results_file
    /\ returned' = <<ReturnValue(results, screenshots)>>
    /\ exit_code' = <<ExitCode(run_error)>>
    /\ pc' = "done"
    /\ UNCHANGED <<aux_vars, retry_vars, run_error, interrupted,
                   max_concurrent, tickers, max_concurrent_tickers, dry_run,
                   send_email, semaphore, job, screenshots, errors,
                   analysis_semaphore, ajob, results, email>>

\* Phase 4 stands in no try: when mkdir, json.dumps or write_text raises, the
\* exception leaves run_analysis_async.
PersistFails ==
    /\ pc = "persist"
    /\ ShouldPersist(results)
    /\ pc' = "raised"
    /\ run_error' = [kind |-> "OSError", at |-> "persist"]
    /\ exit_code' = <<ExitCode(run_error')>>
    /\ UNCHANGED <<aux_vars, retry_vars, returned, interrupted,
                   max_concurrent, tickers, max_concurrent_tickers, dry_run,
                   send_email, semaphore, job, screenshots, errors,
                   analysis_semaphore, ajob, results, email, results_file>>

(***************************************************************************)
(* The start of run_analysis_async, lines 107-115, and the end of main,    *)
(* lines 247-289.                                                          *)
(***************************************************************************)
\* "if not tickers: return 1" of main: with an empty ticker list
\* run_analysis_async is not called.
NoTickers ==
    /\ pc = "start"
    /\ tickers = <<>>
    /\ pc' = "refused"
    /\ exit_code' = <<ExitFatal>>
    /\ UNCHANGED <<aux_vars, retry_vars, returned, run_error, interrupted,
                   max_concurrent, tickers, max_concurrent_tickers, dry_run,
                   send_email, semaphore, job, screenshots, errors,
                   analysis_semaphore, ajob, results, email, results_file>>

\* a mutant of AnalyzerCredentialsMissing: the analyzer is made in a dry run
\* too
AnalyzerAlwaysMade ==
    /\ pc = "start"
    /\ tickers # <<>>
    /\ pc' = "raised"
    /\ run_error' = [kind |-> "EnvironmentError", at |-> "start"]
    /\ exit_code' = <<ExitFatal>>
    /\ UNCHANGED <<aux_vars, retry_vars, returned, interrupted,
                   max_concurrent, tickers, max_concurrent_tickers, dry_run,
                   send_email, semaphore, job, screenshots, errors,
                   analysis_semaphore, ajob, results, email, results_file>>

\* ClaudeAnalyzer(config) of line 109, made unless dry_run: when
\* ANTHROPIC_API_KEY is not set, ensure_env_vars raises EnvironmentError.
AnalyzerCredentialsMissing ==
    /\ pc = "start"
    /\ tickers # <<>>
    /\ ~dry_run
    /\ pc' = "raised"
    /\ run_error' = [kind |-> "EnvironmentError", at |-> "start"]
    /\ exit_code' = <<ExitCode(run_error')>>
    /\ UNCHANGED <<aux_vars, retry_vars, returned, interrupted,
                   max_concurrent, tickers, max_concurrent_tickers, dry_run,
                   send_email, semaphore, job, screenshots, errors,
                   analysis_semaphore, ajob, results, email, results_file>>

\* The browser is started, asyncio.Semaphore(max_concurrent_tickers) of line
\* 115 raises ValueError for a negative value, and "async with" stops the
\* browser on the way out.
SemaphoreRejected ==
    /\ pc = "start"
    /\ tickers # <<>>
    /\ max_concurrent_tickers < 0
    /\ pc' = "raised"
    /\ run_error' = [kind |-> "ValueError", at |-> "start"]
    /\ exit_code' = <<ExitCode(run_error')>>
    /\ browser' = "stopped"
    /\ UNCHANGED <<response_text, parse_out, pair_vars, analysis_log,
                   page_vars, capture_call,
                   retry_vars, returned, interrupted,
                   max_concurrent, tickers, max_concurrent_tickers, dry_run,
                   send_email, semaphore, job, screenshots, errors,
                   analysis_semaphore, ajob, results, email, results_file>>

\* The analyzer is made, the browser is started, the semaphore is made and
\* the process_ticker tasks are handed to asyncio.gather.
CaptureStarts ==
    /\ pc = "start"
    /\ tickers # <<>>
    /\ max_concurrent_tickers >= 0
    /\ pc' = "capture"
    /\ semaphore' = max_concurrent_tickers
    /\ browser' = "started"
    /\ UNCHANGED <<response_text, parse_out, pair_vars, analysis_log,
                   page_vars, capture_call,
                   retry_vars, exit_vars, interrupted, max_concurrent,
                   tickers, max_concurrent_tickers, dry_run, send_email, job,
                   screenshots, errors, analysis_semaphore, ajob, results,
                   email, results_file>>

(***************************************************************************)
(* The specifications of a run.                                            *)
(***************************************************************************)
TickerSymbols == {"AAA", "BBB"}

\* The ticker lists of up to MaxTickers symbols, a symbol possibly more than
\* once; the first symbol is AAA (exchanging the two symbols makes no
\* difference to a run).  The list may be empty.
TickerLists ==
    { t \in UNION { [1..n -> TickerSymbols] : n \in 0..MaxTickers } :
        t = <<>> \/ t[1] = "AAA" }

RetryIdle ==
    /\ retry_policy = Policy(0, 0, 0, {})
    /\ wrapper = IdleWrapper

\* The state when run_analysis_async is called: one process_ticker task to
\* be made per ticker, none started.
RunStarts ==
    /\ pc = "start"
    /\ semaphore = 0
    /\ job = [i \in 1..Len(tickers) |-> NewJob]
    /\ screenshots = <<>>
    /\ errors = <<>>
    /\ analysis_semaphore = 0
    /\ ajob = <<>>
    /\ results = <<>>
    /\ email = "none"
    /\ results_file = <<>>
    /\ max_concurrent = 0
    /\ interrupted = FALSE
    /\ returned = <<>>
    /\ run_error = NoRunError
    /\ exit_code = <<>>

\* --max-concurrent is parsed with type=int: every integer is accepted.
Init ==
    /\ RetryIdle
    /\ AuxIdle
    /\ tickers \in TickerLists
    /\ max_concurrent_tickers \in -1..MaxPermits
    /\ dry_run \in BOOLEAN
    /\ send_email \in BOOLEAN
    /\ RunStarts

\* The steps of a run once its tasks are made.
Running ==
    \/ \E i \in Jobs : Acquire(i)
    \/ \E i \in Jobs : CandlestickSettles(i)
    \/ \E i \in Jobs : PnfSettles(i)
    \/ \E i \in Jobs : CaptureReturns(i)
    \/ CaptureDone
    \/ \E j \in AnalysisJobs : AnalyzeAcquire(j)
    \/ \E j \in AnalysisJobs : AnalyzeReturns(j)
    \/ \E j \in AnalysisJobs : AnalyzeRaises(j)
    \/ \E j \in AnalysisJobs : AnalyzeBackoffEnds(j)
    \/ AnalyzeBatchReturns
    \/ ReportSent
    \/ ReportFails
    \/ ReportCredentialsMissing
    \/ ReportSkipped
    \/ Persist
    \/ PersistFails
    \/ \E i \in Jobs : CancelSwallowed(i)
    \/ \E i \in Jobs : SwallowedCaptureSettles(i)
    \/ \E i \in Jobs : Cancelled(i)
    \/ RunCancelled

\* The steps of a run that the program takes by itself.
Progress ==
    \/ NoTickers
    \/ AnalyzerCredentialsMissing
    \/ SemaphoreRejected
    \/ CaptureStarts
    \/ Running

Next == Progress \/ Interrupt

Spec == Init /\ [][Next]_vars

\* The run of three tickers with two capture permits.
InitE2E ==
    /\ RetryIdle
    /\ AuxIdle
    /\ tickers = <<"AAA", "BBB", "CCC">>
    /\ max_concurrent_tickers = 2
    /\ dry_run = FALSE
    /\ send_email = TRUE
    /\ RunStarts

\* With two permits the semaphore is never rejected.
NextE2E ==
    \/ AnalyzerCredentialsMissing
    \/ CaptureStarts
    \/ Running
    \/ Interrupt

SpecE2E == InitE2E /\ [][NextE2E]_vars

(***************************************************************************)
(* analyze_batch on its own: called with the artifact sets of up to        *)
(* MaxBatch symbols and a max_concurrent of its caller's choice (a run     *)
(* passes 5), while the capture pool of the process, if there is one, is   *)
(* idle.                                                                   *)
(***************************************************************************)
BatchSymbols == <<"AAA", "BBB", "CCC", "DDD">>

\* The all_image_paths argument: the first n symbols, all four artifacts each.
BatchArtifacts(n) == [k \in 1..n |-> [key |-> BatchSymbols[k], val |-> Kinds]]

InitBatch ==
    /\ RetryIdle
    /\ AuxIdle
    /\ tickers = <<>>
    /\ job = <<>>
    /\ max_concurrent_tickers \in 0..MaxPermits
    /\ semaphore = max_concurrent_tickers
    /\ dry_run = FALSE
    /\ send_email = FALSE
    /\ pc = "analyze"
    /\ \E n \in 1..MaxBatch :
          /\ screenshots = BatchArtifacts(n)
          /\ ajob = [j \in 1..n |-> NewAnalysisJob]
    /\ errors = <<>>
    /\ max_concurrent \in (1..MaxPermits) \cup {AnalysisMaxConcurrent}
    /\ analysis_semaphore = max_concurrent
    /\ results = <<>>
    /\ email = "none"
    /\ results_file = <<>>
    /\ interrupted = FALSE
    /\ returned = <<>>
    /\ run_error = NoRunError
    /\ exit_code = <<>>

NextBatch ==
    \/ \E j \in AnalysisJobs : AnalyzeAcquire(j)
    \/ \E j \in AnalysisJobs : AnalyzeReturns(j)
    \/ \E j \in AnalysisJobs : AnalyzeRaises(j)
    \/ \E j \in AnalysisJobs : AnalyzeBackoffEnds(j)
    \/ AnalyzeBatchReturns

SpecBatch == InitBatch /\ [][NextBatch]_vars

(***************************************************************************)
(* analyze_batch for two symbols with every answer of the service: next to *)
(* the two answers of Responses, a JSON object whose "symbol" is not the   *)
(* symbol asked about, and one without a "symbol".                         *)
(***************************************************************************)
\* The response texts of the service, whatever symbol their JSON object
\* names.
AnyResponses(symbol) ==
    Responses(symbol)
        \cup { ResponseText("object", 40, named, "BEARISH", "SELL", "MEDIUM",
                            Text("summary", 10)) :
                 named \in {"absent", "OTHER"} }

InitAnswers ==
    /\ RetryIdle
    /\ AuxIdle
    /\ tickers = <<>>
    /\ job = <<>>
    /\ max_concurrent_tickers = 0
    /\ semaphore = 0
    /\ dry_run = FALSE
    /\ send_email \in BOOLEAN
    /\ pc = "analyze"
    /\ screenshots = [k \in {1, 2} |-> [key |-> BatchSymbols[k], val |-> Kinds]]
    /\ ajob = [j \in {1, 2} |-> NewAnalysisJob]
    /\ errors = <<>>
    /\ max_concurrent = AnalysisMaxConcurrent
    /\ analysis_semaphore = max_concurrent
    /\ results = <<>>
    /\ email = "none"
    /\ results_file = <<>>
    /\ interrupted = FALSE
    /\ returned = <<>>
    /\ run_error = NoRunError
    /\ exit_code = <<>>

\* messages.create returns any response text that _parse_response returns
\* on: the response is parsed, analyze and its wrapper return, the permit is
\* released.
AnalyzeAnswers(j) ==
    /\ pc = "analyze"
    /\ ajob[j].pc = "held"
    /\ ajob[j].w.pc = "call"
    /\ \E resp \in AnyResponses(screenshots[j].key) :
          ajob' = [ajob EXCEPT
                     ![j].w = OnReturn(@),
                     ![j].result = ParseResponse(resp, screenshots[j].key),
                     ![j].pc = "done"]
    /\ analysis_semaphore' = Release(analysis_semaphore)
    /\ UNCHANGED <<aux_vars, retry_vars, exit_vars, interrupted,
                   max_concurrent,
                   tickers, max_concurrent_tickers, dry_run,
                   send_email, pc, semaphore, job, screenshots, errors,
                   results, email, results_file>>

NextAnswers ==
    \/ \E j \in AnalysisJobs : AnalyzeAcquire(j)
    \/ \E j \in AnalysisJobs : AnalyzeAnswers(j)
    \/ \E j \in AnalysisJobs : AnalyzeRaises(j)
    \/ \E j \in AnalysisJobs : AnalyzeBackoffEnds(j)
    \/ AnalyzeBatchReturns

SpecAnswers == InitAnswers /\ [][NextAnswers]_vars

\* _parse_response alone: one call on a response text drawn from
\* ResponseTexts.
InitParse ==
    /\ RetryIdle
    /\ RunIdle
    /\ response_text \in ResponseTexts
    /\ parse_out = NotParsed
    /\ blocking = IdleWrapper
    /\ outcomes = <<>>
    /\ peer = PeersIdle
    /\ BrowserIdle
    /\ analysis_log = <<>>
    /\ capture_call = CaptureIdle

NextParse == Parse

SpecParse == InitParse /\ [][NextParse]_vars

(***************************************************************************)
(* retry next to async_retry: one call of each wrapper, made with the same *)
(* policy around a function whose n-th invocation ends in the same way for *)
(* both.  The way it ends is drawn when the first of the two makes its     *)
(* n-th invocation.  Each wrapper has a peer: another task of the event    *)
(* loop for the async wrapper, other work of the same thread for the       *)
(* blocking one.                                                           *)
(***************************************************************************)
Outcomes == {"return"} \cup RaisedKinds

InitPair ==
    /\ retry_policy \in RetryPolicies
    /\ wrapper = WrapperEnter(retry_policy)
    /\ blocking = BlockingEnter(retry_policy)
    /\ outcomes = <<>>
    /\ peer = PeersIdle
    /\ response_text = ResponseText("plain", 0, "absent", "absent", "absent",
                                    "absent", AbsentText)
    /\ parse_out = NotParsed
    /\ BrowserIdle
    /\ analysis_log = <<>>
    /\ capture_call = CaptureIdle
    /\ RunIdle

\* The ways the n-th invocation of func may end: as drawn, if it is.
OutcomesOf(n) == IF n <= Len(outcomes) THEN {outcomes[n]} ELSE Outcomes

Drawn(n, o) == IF n <= Len(outcomes) THEN outcomes ELSE Append(outcomes, o)

\* "await func(*args, **kwargs)" is over.
AsyncFuncEnds ==
    /\ wrapper.pc = "call"
    /\ \E o \in OutcomesOf(wrapper.calls) :
          /\ outcomes' = Drawn(wrapper.calls, o)
          /\ wrapper' = IF o = "return" THEN OnReturn(wrapper)
                        ELSE OnRaise(wrapper, retry_policy, o)
    /\ UNCHANGED <<retry_policy, run_vars, browser_vars, capture_call,
                   analysis_log,
                   response_text, parse_out, blocking,
                   peer>>

\* "await asyncio.sleep(current_delay)" is over.
AsyncSleepEnds ==
    /\ wrapper.pc = "sleep"
    /\ wrapper' = OnWake(wrapper, retry_policy)
    /\ UNCHANGED <<retry_policy, run_vars, browser_vars, capture_call,
                   analysis_log,
                   response_text, parse_out, blocking,
                   outcomes, peer>>

\* "func(*args, **kwargs)" is over.
BlockingFuncEnds ==
    /\ blocking.pc = "call"
    /\ \E o \in OutcomesOf(blocking.calls) :
          /\ outcomes' = Drawn(blocking.calls, o)
          /\ blocking' = IF o = "return" THEN BlockingOnReturn(blocking)
                         ELSE BlockingOnRaise(blocking, retry_policy, o)
    /\ UNCHANGED <<retry_vars, run_vars, browser_vars, capture_call,
                   analysis_log,
                   response_text, parse_out, peer>>

\* "time.sleep(current_delay)" is over.
BlockingSleepEnds ==
    /\ blocking.pc = "sleep"
    /\ blocking' = BlockingOnWake(blocking, retry_policy)
    /\ UNCHANGED <<retry_vars, run_vars, browser_vars, capture_call,
                   analysis_log,
                   response_text, parse_out, outcomes,
                   peer>>

\* The event loop runs another task while the coroutine of the async wrapper
\* is suspended in an await (of func or of asyncio.sleep) or is over.
AsyncPeerSteps ==
    /\ peer.async = "ready"
    /\ wrapper.pc \in {"call", "sleep", "returned", "raised"}
    /\ peer' = [peer EXCEPT !.async = "done"]
    /\ UNCHANGED <<retry_vars, run_vars, browser_vars, capture_call,
                   analysis_log,
                   response_text, parse_out, blocking,
                   outcomes>>

\* The thread of the blocking wrapper does other work only when the call is
\* over: func and time.sleep keep the thread.
BlockingPeerSteps ==
    /\ peer.blocking = "ready"
    /\ blocking.pc \in {"returned", "raised"}
    /\ peer' = [peer EXCEPT !.blocking = "done"]
    /\ UNCHANGED <<retry_vars, run_vars, browser_vars, capture_call,
                   analysis_log,
                   response_text, parse_out, blocking,
                   outcomes>>

NextPair ==
    \/ AsyncFuncEnds
    \/ AsyncSleepEnds
    \/ BlockingFuncEnds
    \/ BlockingSleepEnds
    \/ AsyncPeerSteps
    \/ BlockingPeerSteps

SpecPair == InitPair /\ [][NextPair]_vars

(***************************************************************************)
(* The pages of capture: for each symbol, capture_candlestick and          *)
(* capture_pnf each run "async with browser.new_page() as page" around     *)
(* their body (chart_capture.py, lines 521-527), all at the same time, on  *)
(* a started browser.                                                      *)
(***************************************************************************)
SubCaptures == TickerSymbols \X SubKinds

\* self._browser.new_context(...) makes a context that did not exist.
FreshContext(s) == s

\* context.new_page() makes the first page of the context.
FreshPage(context) == [context |-> context, n |-> 1]

\* a mutant of RunsFinally: the page is closed after the body only when the
\* body returns
RunsFinallyOnReturn(exit) == exit = "return"

\* "try: yield ... finally:" runs the finally clause however the body of the
\* with statement ends.
RunsFinally(exit) == TRUE

\* The ways the body of the with statement ends: _capture_..._charts returns,
\* raises, or is cancelled at one of its awaits.
BodyExits == {"return", "exception", "cancelled"}

InitBrowser ==
    /\ RetryIdle
    /\ RunIdle
    /\ response_text = ResponseText("plain", 0, "absent", "absent", "absent",
                                    "absent", AbsentText)
    /\ parse_out = NotParsed
    /\ blocking = IdleWrapper
    /\ outcomes = <<>>
    /\ peer = PeersIdle
    /\ sub = [s \in SubCaptures |-> NewSub]
    /\ browser_contexts = {}
    /\ browser_pages = {}
    /\ browser = "started"
    /\ analysis_log = <<>>
    /\ capture_call = CaptureIdle

\* new_context: "context = await self._browser.new_context(...)" returns.
NewContextReturns(s) ==
    /\ sub[s].pc = "start"
    /\ browser_contexts' = browser_contexts \cup {FreshContext(s)}
    /\ sub' = [sub EXCEPT ![s].context = FreshContext(s), ![s].pc = "context"]
    /\ UNCHANGED <<retry_vars, run_vars, response_text, parse_out, pair_vars,
                   analysis_log, capture_call,
                   browser, browser_pages>>

\* new_context raises before its try (the browser has gone, or the task is
\* cancelled at the await): there is no context.
NewContextRaises(s) ==
    /\ sub[s].pc = "start"
    /\ sub' = [sub EXCEPT ![s].exit = "no_context", ![s].pc = "done"]
    /\ UNCHANGED <<retry_vars, run_vars, response_text, parse_out, pair_vars,
                   analysis_log, capture_call,
                   browser, browser_contexts, browser_pages>>

\* new_page: "page = await context.new_page()" returns and the page is
\* handed to the body.
NewPageReturns(s) ==
    /\ sub[s].pc = "context"
    /\ browser_pages' = browser_pages \cup {FreshPage(sub[s].context)}
    /\ sub' = [sub EXCEPT ![s].page = FreshPage(sub[s].context),
                          ![s].pc = "body"]
    /\ UNCHANGED <<retry_vars, run_vars, response_text, parse_out, pair_vars,
                   analysis_log, capture_call,
                   browser, browser_contexts>>

\* context.new_page() raises inside "async with self.new_context()": the
\* finally clause of new_context is next.
NewPageRaises(s) ==
    /\ sub[s].pc = "context"
    /\ sub' = [sub EXCEPT ![s].exit = "no_page", ![s].pc = "closing"]
    /\ UNCHANGED <<retry_vars, run_vars, response_text, parse_out, pair_vars,
                   analysis_log, capture_call,
                   browser, browser_contexts, browser_pages>>

\* The body of the with statement ends.
BodyEnds(s) ==
    /\ sub[s].pc = "body"
    /\ \E exit \in BodyExits :
          sub' = [sub EXCEPT ![s].exit = exit,
                             ![s].pc = IF RunsFinally(exit) THEN "leaving"
                                       ELSE "done"]
    /\ UNCHANGED <<retry_vars, run_vars, response_text, parse_out, pair_vars,
                   analysis_log, capture_call,
                   browser, browser_contexts, browser_pages>>

\* "await page.close()" returns.
PageCloseReturns(s) ==
    /\ sub[s].pc = "leaving"
    /\ browser_pages' = browser_pages \ {sub[s].page}
    /\ sub' = [sub EXCEPT ![s].pc = "closing"]
    /\ UNCHANGED <<retry_vars, run_vars, response_text, parse_out, pair_vars,
                   analysis_log, capture_call,
                   browser, browser_contexts>>

\* "await page.close()" raises: the page is left as it is and the error
\* goes on to the finally clause of new_context.
PageCloseRaises(s) ==
    /\ sub[s].pc = "leaving"
    /\ sub' = [sub EXCEPT ![s].pc = "closing"]
    /\ UNCHANGED <<retry_vars, run_vars, response_text, parse_out, pair_vars,
                   analysis_log, capture_call,
                   browser, browser_contexts, browser_pages>>

\* "await context.close()": the context and the pages in it are closed.
ContextCloses(s) ==
    /\ sub[s].pc = "closing"
    /\ browser_contexts' = browser_contexts \ {sub[s].context}
    /\ browser_pages' = { p \in browser_pages : p.context # sub[s].context }
    /\ sub' = [sub EXCEPT ![s].pc = "done"]
    /\ UNCHANGED <<retry_vars, run_vars, response_text, parse_out, pair_vars,
                   analysis_log, capture_call, browser>>

NextBrowser ==
    \E s \in SubCaptures :
        \/ NewContextReturns(s)
        \/ NewContextRaises(s)
        \/ NewPageReturns(s)
        \/ NewPageRaises(s)
        \/ BodyEnds(s)
        \/ PageCloseReturns(s)
        \/ PageCloseRaises(s)
        \/ ContextCloses(s)

SpecBrowser == InitBrowser /\ [][NextBrowser]_vars

(***************************************************************************)
(* The capture phase with its browser: two process_ticker tasks under the  *)
(* capture semaphore, each sub-capture of a task taking its page from the  *)
(* browser of the run inside "async with browser.new_page()", and the      *)
(* "async with AsyncBrowserManager(config)" of run_analysis_async around   *)
(* them.  The run is a dry run: it ends with the capture phase.  The value *)
(* of --max-concurrent is a rejected one (-1), none, fewer permits than    *)
(* tasks, or a permit for each task.                                       *)
(***************************************************************************)
InitPool ==
    /\ RetryIdle
    /\ response_text = ResponseText("plain", 0, "absent", "absent", "absent",
                                    "absent", AbsentText)
    /\ parse_out = NotParsed
    /\ blocking = IdleWrapper
    /\ outcomes = <<>>
    /\ peer = PeersIdle
    /\ tickers = <<"AAA", "BBB">>
    /\ max_concurrent_tickers \in {-1, 0, 1, 2}
    /\ dry_run = TRUE
    /\ send_email = FALSE
    /\ RunStarts
    /\ sub = [s \in Jobs \X SubKinds |-> NewSub]
    /\ browser_contexts = {}
    /\ browser_pages = {}
    /\ browser = "none"
    /\ analysis_log = <<>>
    /\ capture_call = CaptureIdle

\* __aenter__: "await self.start()" raises (playwright cannot be started or
\* chromium cannot be launched).  The body of "async with" is not entered
\* and __aexit__ is not called.
BrowserStartFails ==
    /\ pc = "start"
    /\ tickers # <<>>
    /\ pc' = "raised"
    /\ run_error' = [kind |-> "Error", at |-> "browser"]
    /\ exit_code' = <<ExitCode(run_error')>>
    /\ browser' = "failed"
    /\ UNCHANGED <<response_text, parse_out, pair_vars, analysis_log,
                   page_vars, capture_call,
                   retry_vars, returned, interrupted,
                   max_concurrent, tickers, max_concurrent_tickers, dry_run,
                   send_email, semaphore, job, screenshots, errors,
                   analysis_semaphore, ajob, results, email, results_file>>

\* A step of "async with browser.new_page() as page" in a sub-capture of a
\* task that is inside capture.  The body is cancelled only in a cancelled
\* run.
SubCaptureSteps(i) ==
    /\ pc = "capture"
    /\ job[i].pc = "held"
    /\ \E kind \in SubKinds :
          LET s == <<i, kind>>
          IN  /\ \/ NewContextReturns(s)
                 \/ NewContextRaises(s)
                 \/ NewPageReturns(s)
                 \/ NewPageRaises(s)
                 \/ BodyEnds(s)
                 \/ PageCloseReturns(s)
                 \/ PageCloseRaises(s)
                 \/ ContextCloses(s)
              /\ sub'[s].exit = "cancelled" => interrupted

\* capture_candlestick is over, "async with" left: gather keeps what it
\* returned or raised.
PoolCandlestickSettles(i) ==
    /\ sub[<<i, "candlestick">>].pc = "done"
    /\ CandlestickSettles(i)
    /\ job'[i].candle.state = "dict" <=> sub[<<i, "candlestick">>].exit = "return"

\* capture_pnf is over, "async with" left.
PoolPnfSettles(i) ==
    /\ sub[<<i, "pnf">>].pc = "done"
    /\ PnfSettles(i)
    /\ job'[i].pnf.state = "dict" <=> sub[<<i, "pnf">>].exit = "return"

\* The cancellation is swallowed in _set_period or _set_range, inside the
\* body of capture_candlestick's "async with".
PoolCancelSwallowed(i) ==
    /\ sub[<<i, "candlestick">>].pc = "body"
    /\ CancelSwallowed(i)

\* The sub-capture that swallowed its cancellation is over, "async with"
\* left.
PoolSwallowedCaptureSettles(i) ==
    /\ sub[<<i, "candlestick">>].pc = "done"
    /\ SwallowedCaptureSettles(i)
    /\ job'[i].candle.state = "dict" <=> sub[<<i, "candlestick">>].exit = "return"

\* a mutant of PoolCancelled: the cancelled task does not wait for its
\* sub-captures
PoolCancelledAtOnce(i) == Cancelled(i)

\* The gather of capture raises CancelledError once both sub-captures are
\* over; a task waiting for the permit is cancelled at once.
PoolCancelled(i) ==
    /\ job[i].pc = "held" => \A kind \in SubKinds : sub[<<i, kind>>].pc = "done"
    /\ Cancelled(i)

NextPool ==
    \/ BrowserStartFails
    \/ SemaphoreRejected
    \/ CaptureStarts
    \/ \E i \in Jobs : Acquire(i)
    \/ \E i \in Jobs : SubCaptureSteps(i)
    \/ \E i \in Jobs : PoolCandlestickSettles(i)
    \/ \E i \in Jobs : PoolPnfSettles(i)
    \/ \E i \in Jobs : CaptureReturns(i)
    \/ CaptureDone
    \/ Interrupt
    \/ \E i \in Jobs : PoolCancelSwallowed(i)
    \/ \E i \in Jobs : PoolSwallowedCaptureSettles(i)
    \/ \E i \in Jobs : PoolCancelled(i)
    \/ RunCancelled

SpecPool == InitPool /\ [][NextPool]_vars

(***************************************************************************)
(* One call of ChartCapture.capture, save by save.  capture_candlestick    *)
(* takes its page, loads and configures the chart, then for the daily and  *)
(* for the weekly chart sets the period, waits for the chart and saves it; *)
(* capture_pnf takes its page, makes the directory and captures the two    *)
(* point-and-figure charts.  A helper that catches Exception itself        *)
(* (_set_period, _set_range, _click_update_button, _save_chart_image,      *)
(* _capture_pnf_chart) never ends its sub-capture; page.goto,              *)
(* wait_for_selector and _wait_for_chart, which catches the timeout only,  *)
(* may.                                                                    *)
(***************************************************************************)
\* What gather holds for a sub-capture.
Outcome(c) ==
    IF c.pc = "dict" THEN Returned(c.result)
    ELSE IF c.pc = "exc" THEN Raised
    ELSE Pending

InitCapture ==
    /\ RetryIdle
    /\ RunIdle
    /\ response_text = ResponseText("plain", 0, "absent", "absent", "absent",
                                    "absent", AbsentText)
    /\ parse_out = NotParsed
    /\ blocking = IdleWrapper
    /\ outcomes = <<>>
    /\ peer = PeersIdle
    /\ BrowserIdle
    /\ analysis_log = <<>>
    /\ capture_call = [candle |-> [IdleSubCapture EXCEPT !.pc = "page"],
                       pnf    |-> [IdleSubCapture EXCEPT !.pc = "page"],
                       merged |-> <<>>]

\* "async with browser.new_page() as page" hands the page to
\* _capture_candlestick_charts.
CandlestickOpens ==
    /\ capture_call.candle.pc = "page"
    /\ capture_call' = [capture_call EXCEPT !.candle.pc = "setup"]
    /\ UNCHANGED <<retry_vars, run_vars, response_text, parse_out, pair_vars,
                   analysis_log,
                   browser_vars>>

\* page.goto, wait_for_selector and the configuration of the chart are over;
\* the directory is made.
CandlestickConfigured ==
    /\ capture_call.candle.pc = "setup"
    /\ capture_call' = [capture_call EXCEPT !.candle.pc = "daily"]
    /\ UNCHANGED <<retry_vars, run_vars, response_text, parse_out, pair_vars,
                   analysis_log,
                   browser_vars>>

\* The period is set, the chart waited for, and _save_chart_image returns:
\* "if await self._save_chart_image(page, path): result[kind] = path".
CandlestickSaves ==
    /\ capture_call.candle.pc \in {"daily", "weekly"}
    /\ \E ok \in BOOLEAN :
          LET kind == capture_call.candle.pc
              kept == IF ok THEN {kind} ELSE {}
          IN  capture_call' =
                 [capture_call EXCEPT
                    !.candle.result = @ \cup kept,
                    !.candle.saved = @ \cup kept,
                    !.candle.pc = IF kind = "daily" THEN "weekly" ELSE "return"]
    /\ UNCHANGED <<retry_vars, run_vars, response_text, parse_out, pair_vars,
                   analysis_log,
                   browser_vars>>

\* An exception leaves capture_candlestick: browser.new_page raises, or
\* page.goto or wait_for_selector, or, before a save, _wait_for_chart with
\* an error that is not the timeout (the page crashed or was closed).  The
\* dict built so far is lost with the frame.
CandlestickRaises ==
    /\ capture_call.candle.pc \in {"page", "setup", "daily", "weekly"}
    /\ capture_call' = [capture_call EXCEPT !.candle.pc = "exc",
                                            !.candle.result = {}]
    /\ UNCHANGED <<retry_vars, run_vars, response_text, parse_out, pair_vars,
                   analysis_log,
                   browser_vars>>

\* "return result" of _capture_candlestick_charts.
CandlestickReturns ==
    /\ capture_call.candle.pc = "return"
    /\ capture_call' = [capture_call EXCEPT !.candle.pc = "dict"]
    /\ UNCHANGED <<retry_vars, run_vars, response_text, parse_out, pair_vars,
                   analysis_log,
                   browser_vars>>

\* "async with browser.new_page() as page" hands the page to
\* _capture_pnf_charts, which makes the directory.
PnfOpens ==
    /\ capture_call.pnf.pc = "page"
    /\ capture_call' = [capture_call EXCEPT !.pnf.pc = "pnf_daily"]
    /\ UNCHANGED <<retry_vars, run_vars, response_text, parse_out, pair_vars,
                   analysis_log,
                   browser_vars>>

\* _capture_pnf_chart returns, having caught every Exception of its own:
\* "if await self._capture_pnf_chart(...): result[kind] = path".
PnfSaves ==
    /\ capture_call.pnf.pc \in {"pnf_daily", "pnf_weekly"}
    /\ \E ok \in BOOLEAN :
          LET kind == capture_call.pnf.pc
              kept == IF ok THEN {kind} ELSE {}
          IN  capture_call' =
                 [capture_call EXCEPT
                    !.pnf.result = @ \cup kept,
                    !.pnf.saved = @ \cup kept,
                    !.pnf.pc = IF kind = "pnf_daily" THEN "pnf_weekly"
                               ELSE "return"]
    /\ UNCHANGED <<retry_vars, run_vars, response_text, parse_out, pair_vars,
                   analysis_log,
                   browser_vars>>

\* An exception leaves capture_pnf: browser.new_page raises, or mkdir.
PnfRaises ==
    /\ capture_call.pnf.pc = "page"
    /\ capture_call' = [capture_call EXCEPT !.pnf.pc = "exc"]
    /\ UNCHANGED <<retry_vars, run_vars, response_text, parse_out, pair_vars,
                   analysis_log,
                   browser_vars>>

\* "return result" of _capture_pnf_charts.
PnfReturns ==
    /\ capture_call.pnf.pc = "return"
    /\ capture_call' = [capture_call EXCEPT !.pnf.pc = "dict"]
    /\ UNCHANGED <<retry_vars, run_vars, response_text, parse_out, pair_vars,
                   analysis_log,
                   browser_vars>>

\* The gather of capture is complete: the dicts are merged and returned.
CaptureMerges ==
    /\ capture_call.merged = <<>>
    /\ Outcome(capture_call.candle) # Pending
    /\ Outcome(capture_call.pnf) # Pending
    /\ capture_call' =
          [capture_call EXCEPT
             !.merged = <<Merge(Outcome(capture_call.candle),
                                Outcome(capture_call.pnf))>>]
    /\ UNCHANGED <<retry_vars, run_vars, response_text, parse_out, pair_vars,
                   analysis_log,
                   browser_vars>>

NextCapture ==
    \/ CandlestickOpens
    \/ CandlestickConfigured
    \/ CandlestickSaves
    \/ CandlestickRaises
    \/ CandlestickReturns
    \/ PnfOpens
    \/ PnfSaves
    \/ PnfRaises
    \/ PnfReturns
    \/ CaptureMerges

SpecCapture == InitCapture /\ [][NextCapture]_vars

(***************************************************************************)
(* main and the ticker entries.  Each entry of the ticker list is a dict:  *)
(* made from --ticker it has the key "symbol"; loaded from                 *)
(* config/tickers.yaml it has the keys the file gives it.  An entry is     *)
(* modelled by its symbol, NoSymbol standing for an entry without the key. *)
(* The runs are dry runs of one or two entries, each with or without a     *)
(* symbol.                                                                 *)
(***************************************************************************)
\* A ticker entry without the key "symbol".
NoSymbol == "(no symbol)"

InitMain ==
    /\ RetryIdle
    /\ AuxIdle
    /\ tickers \in UNION { [1..n -> {"AAA", NoSymbol}] : n \in 1..2 }
    /\ max_concurrent_tickers \in 1..2
    /\ dry_run = TRUE
    /\ send_email = FALSE
    /\ pc = "main"
    /\ semaphore = 0
    /\ job = [i \in 1..Len(tickers) |-> NewJob]
    /\ screenshots = <<>>
    /\ errors = <<>>
    /\ analysis_semaphore = 0
    /\ ajob = <<>>
    /\ results = <<>>
    /\ email = "none"
    /\ results_file = <<>>
    /\ max_concurrent = 0
    /\ interrupted = FALSE
    /\ returned = <<>>
    /\ run_error = NoRunError
    /\ exit_code = <<>>

\* a mutant of MainLogsTickers: the list is not read before the run
MainLogsTickersUnread ==
    /\ pc = "main"
    /\ pc' = "start"
    /\ UNCHANGED <<aux_vars, retry_vars, exit_vars, interrupted,
                   max_concurrent,
                   tickers, max_concurrent_tickers, dry_run, send_email,
                   semaphore, job, screenshots, errors, analysis_semaphore,
                   ajob, results, email, results_file>>

\* main logs "Analyzing n tickers: ..." with t['symbol'] of every entry,
\* before the try of asyncio.run: an entry without the key raises KeyError,
\* which ends the process with a traceback and status 1.
MainLogsTickers ==
    /\ pc = "main"
    /\ IF \A i \in 1..Len(tickers) : tickers[i] # NoSymbol
       THEN /\ pc' = "start"
            /\ UNCHANGED exit_vars
       ELSE /\ pc' = "raised"
            /\ run_error' = [kind |-> "KeyError", at |-> "main"]
            /\ exit_code' = <<ExitFatal>>
            /\ UNCHANGED returned
    /\ UNCHANGED <<aux_vars, retry_vars, interrupted, max_concurrent,
                   tickers, max_concurrent_tickers, dry_run, send_email,
                   semaphore, job, screenshots, errors, analysis_semaphore,
                   ajob, results, email, results_file>>

\* The first step of process_ticker: symbol = ticker_info["symbol"], outside
\* the try, raises KeyError for an entry without the key, which ends the
\* task; otherwise the task goes on to "async with semaphore".
ProcessTickerStarts(i) ==
    IF tickers[i] = NoSymbol
    THEN /\ pc = "capture"
         /\ job[i].pc = "start"
         /\ job' = [job EXCEPT
                      ![i].ret = [tag |-> "raised", paths |-> {},
                                  error |-> [kind |-> "KeyError", call |-> 0]],
                      ![i].pc = "done"]
         /\ UNCHANGED <<aux_vars, retry_vars, exit_vars, interrupted,
                        max_concurrent, tickers, max_concurrent_tickers,
                        dry_run, send_email, pc, semaphore, screenshots,
                        errors, analysis_semaphore, ajob, results, email,
                        results_file>>
    ELSE Acquire(i)

NextMain ==
    \/ MainLogsTickers
    \/ CaptureStarts
    \/ \E i \in Jobs : ProcessTickerStarts(i)
    \/ \E i \in Jobs : CandlestickSettles(i)
    \/ \E i \in Jobs : PnfSettles(i)
    \/ \E i \in Jobs : CaptureReturns(i)
    \/ CaptureDone

SpecMain == InitMain /\ [][NextMain]_vars

(***************************************************************************)
(* Properties of the retry wrapper (under SpecRetry).                      *)
(***************************************************************************)
\* Whether the policy's except clause catches an error of this class.
Retryable(kind) == \E cls \in retry_policy.exceptions : IsInstance(kind, cls)

\* Every invocation of the wrapped function so far raised a retryable error.
AlwaysFailing ==
    \A k \in 1..Len(wrapper.history) :
        wrapper.history[k] # "return" /\ Retryable(wrapper.history[k])

RECURSIVE Pow(_, _)
Pow(b, n) == IF n = 0 THEN 1 ELSE b * Pow(b, n - 1)

\* b^0 + ... + b^(n-1)
RECURSIVE GeomSum(_, _)
GeomSum(b, n) == IF n <= 0 THEN 0 ELSE Pow(b, n - 1) + GeomSum(b, n - 1)

RECURSIVE SumSeq(_)
SumSeq(s) == IF s = <<>> THEN 0 ELSE Head(s) + SumSeq(Tail(s))

\* C2: with max_attempts M >= 1 and a function that raises a retryable error
\* on every call, the wrapper never returns, invokes the function at most M
\* times, and when it raises it has invoked it exactly M times and raises the
\* error of the M-th call itself.
C2_ExactlyMAttemptsLastError ==
    (retry_policy.max_attempts >= 1 /\ AlwaysFailing) =>
        /\ wrapper.pc # "returned"
        /\ wrapper.calls <= retry_policy.max_attempts
        /\ wrapper.pc = "raised" =>
              /\ wrapper.calls = retry_policy.max_attempts
              /\ Len(wrapper.history) = retry_policy.max_attempts
              /\ wrapper.raised =
                    [kind |-> wrapper.history[retry_policy.max_attempts],
                     call |-> retry_policy.max_attempts]

\* Three attempts, all failing, the last with another error than the first.
C2_Witness ==
    /\ retry_policy.max_attempts = 3
    /\ AlwaysFailing
    /\ wrapper.pc = "raised"
    /\ wrapper.calls = 3
    /\ wrapper.history = <<"APIError", "APIError", "OSError">>
    /\ wrapper.raised = [kind |-> "OSError", call |-> 3]

\* C3: with max_attempts M >= 1 and a function that always raises a retryable
\* error, the k-th wait follows the k-th failed call and lasts
\* delay * backoff^(k-1); there are never more than M-1 waits; and when the
\* wrapper raises, after the M-th failure, it has waited exactly M-1 times,
\* delay * (backoff^0 + ... + backoff^(M-2)) in all.
C3_BackoffWaits ==
    (retry_policy.max_attempts >= 1 /\ AlwaysFailing) =>
        /\ Len(wrapper.waits) <= retry_policy.max_attempts - 1
        /\ \A k \in 1..Len(wrapper.waits) :
              wrapper.waits[k] = retry_policy.delay * Pow(retry_policy.backoff, k - 1)
        /\ wrapper.pc = "call" => Len(wrapper.waits) = wrapper.calls - 1
        /\ wrapper.pc = "sleep" => Len(wrapper.waits) = wrapper.calls
        /\ wrapper.pc = "raised" =>
              /\ Len(wrapper.waits) = retry_policy.max_attempts - 1
              /\ SumSeq(wrapper.waits) =
                    retry_policy.delay
                        * GeomSum(retry_policy.backoff, retry_policy.max_attempts - 1)

\* The policy of capture and analyze: waits of 2 and 4 seconds, none after
\* the third failure.
C3_Witness ==
    /\ retry_policy.max_attempts = 3
    /\ retry_policy.delay = 2
    /\ retry_policy.backoff = 2
    /\ AlwaysFailing
    /\ wrapper.pc = "raised"
    /\ wrapper.waits = <<2, 4>>

\* C4: a call of the wrapped function that raises an error the policy does
\* not catch is the last one: the wrapper has raised that very error, with no
\* wait and no warning for it, whatever the number of the call.
C4_NonRetryablePropagates ==
    \A k \in 1..Len(wrapper.history) :
        (wrapper.history[k] # "return" /\ ~Retryable(wrapper.history[k])) =>
            /\ k = Len(wrapper.history)
            /\ wrapper.calls = k
            /\ wrapper.pc = "raised"
            /\ wrapper.raised = [kind |-> wrapper.history[k], call |-> k]
            /\ Len(wrapper.waits) = k - 1
            /\ wrapper.warnings = k - 1

\* The policy of analyze: an API error is retried, the error of the second
\* request is not an API error.
C4_Witness ==
    /\ retry_policy = AnalyzePolicy
    /\ wrapper.history = <<"APIError", "OSError">>
    /\ wrapper.pc = "raised"
    /\ wrapper.calls = 2
    /\ wrapper.waits = <<2>>

(***************************************************************************)
(* Properties of a run (under Spec and SpecE2E).                           *)
(***************************************************************************)
\* The process_ticker tasks between acquiring and releasing the permit.
Holders == { i \in Jobs : job[i].pc = "held" }

\* C1: with a capture permit count K >= 1, never more than K process_ticker
\* tasks are between acquiring and releasing the capture permit.
C1_AtMostKHolders ==
    max_concurrent_tickers >= 1 =>
        Cardinality(Holders) <= max_concurrent_tickers

\* All K permits are held while another task waits for one.
C1_Witness ==
    /\ max_concurrent_tickers >= 1
    /\ Cardinality(Holders) = max_concurrent_tickers
    /\ \E i \in Jobs : job[i].pc = "start"

\* The session of a job could not be used at all: both sub-captures raised.
SessionFailed(i) ==
    job[i].candle.state = "exc" /\ job[i].pnf.state = "exc"

\* The analysis task of a symbol.
AnalysisJobOf(s) == CHOOSE j \in AnalysisJobs : screenshots[j].key = s

Analysed(s) ==
    /\ pc \in {"analyze", "report", "persist", "done"}
    /\ \E j \in AnalysisJobs : screenshots[j].key = s

AnalysisFailed(s) == Analysed(s) /\ ajob[AnalysisJobOf(s)].w.pc = "raised"

AnalysisSucceeded(s) == Analysed(s) /\ ajob[AnalysisJobOf(s)].w.pc = "returned"

\* The entries of the error list under a symbol.
ErrorsOf(s) == { n \in 1..Len(errors) : errors[n].symbol = s }

\* The entries of the results list under a symbol.
ResultsOf(s) == { n \in 1..Len(results) : results[n].symbol = s }

\* Job a failed, in capture or in analysis.
JobFailed(a) ==
    \/ job[a].ret.tag \in {"error", "raised"}
    \/ SessionFailed(a)
    \/ AnalysisFailed(tickers[a])

\* Job b captured artifacts and its symbol was analysed.
JobSucceeded(b) ==
    /\ job[b].ret.tag = "paths"
    /\ job[b].ret.paths # {}
    /\ ~dry_run => AnalysisSucceeded(tickers[b])

\* C5: at the end of a run, for any two jobs A and B where A failed and B
\* succeeded, the artifact mapping holds for B's symbol the artifact set B's
\* own capture returned, and the results hold one result for B's symbol.
C5_Isolation ==
    pc = "done" =>
        \A a, b \in Jobs :
            (a # b /\ JobFailed(a) /\ JobSucceeded(b)) =>
                /\ DictHas(screenshots, tickers[b])
                /\ DictGet(screenshots, tickers[b]) = job[b].ret.paths
                /\ ~dry_run => Cardinality(ResultsOf(tickers[b])) = 1

\* The same for a job B whose symbol no other job of the run carries; this
\* holds in every run.
IsolationUniqueSymbol ==
    pc = "done" =>
        \A b \in Jobs :
            ((\A a \in Jobs : a # b => tickers[a] # tickers[b]) /\ JobSucceeded(b)) =>
                /\ DictHas(screenshots, tickers[b])
                /\ DictGet(screenshots, tickers[b]) = job[b].ret.paths
                /\ ~dry_run => Cardinality(ResultsOf(tickers[b])) = 1

\* C6: every symbol whose analysis task has been started, and so every
\* request sent, has at least one artifact in the artifact mapping.
C6_NoEmptyAnalysis ==
    pc \in {"analyze", "report", "persist", "done"} =>
        \A j \in AnalysisJobs :
            ajob[j].w.calls >= 1 => screenshots[j].val # {}

\* C7: tickers AAA, BBB, CCC with two permits; the session of BBB fails, AAA
\* and CCC capture all four artifacts and are analysed.  Then the run ends
\* with exactly one error entry, for BBB, results for AAA and CCC only, and an
\* artifact mapping with all three keys, the empty set under BBB.
C7_EndToEnd ==
    ( /\ pc = "done"
      /\ tickers = <<"AAA", "BBB", "CCC">>
      /\ max_concurrent_tickers = 2
      /\ job[1].ret.paths = Kinds
      /\ job[3].ret.paths = Kinds
      /\ SessionFailed(2)
      /\ AnalysisSucceeded("AAA")
      /\ AnalysisSucceeded("CCC")
      /\ email # "failed" )
    => /\ Len(errors) = 1
       /\ errors[1].symbol = "BBB"
       /\ { results[n].symbol : n \in 1..Len(results) } = {"AAA", "CCC"}
       /\ Len(results) = 2
       /\ DictKeys(screenshots) = {"AAA", "BBB", "CCC"}
       /\ DictGet(screenshots, "BBB") = {}

\* C8: a job whose session failed has been captured three times, with two
\* backoff waits, before its task ended, it ended as a failure, and once the
\* capture phase is over the error list holds an entry for its symbol.
C8_SessionFailureRetried ==
    \A i \in Jobs :
        (job[i].pc = "done" /\ SessionFailed(i)) =>
            /\ job[i].w.calls = CaptureMaxAttempts
            /\ Len(job[i].w.waits) = CaptureMaxAttempts - 1
            /\ job[i].ret.tag = "error"
            /\ pc # "capture" => ErrorsOf(tickers[i]) # {}

\* C9: when a run that is not a dry run is over, the results document has been
\* written, with the results of the run, also when there are none.
C9_AlwaysPersisted ==
    (pc = "done" /\ ~dry_run) => results_file = ResultsDocument(results)

\* C10: when the run is over, every job whose capture ended with an error and
\* every symbol whose analysis ended with an error has exactly one entry in
\* the error list.
C10_FailuresRecorded ==
    pc = "done" =>
        /\ \A i \in Jobs :
              job[i].ret.tag \in {"error", "raised"} =>
                  Cardinality(ErrorsOf(tickers[i])) = 1
        /\ \A j \in AnalysisJobs :
              ajob[j].w.pc = "raised" =>
                  Cardinality(ErrorsOf(screenshots[j].key)) = 1

(***************************************************************************)
(* Properties of the return value, the report and persist phases, the      *)
(* credentials and the exit code (under Spec).                             *)
(***************************************************************************)
\* The analysis tasks that ended by raising.
FailedAnalyses == { j \in AnalysisJobs : ajob[j].w.pc = "raised" }

PersistFailed == run_error.at = "persist"

\* C12: a failure of the persist phase does not escalate: run_analysis_async
\* still returns its results and main does not return the fatal exit code.
C12_PersistFailureContained ==
    PersistFailed =>
        /\ returned = <<ReturnValue(results, screenshots)>>
        /\ exit_code # <<ExitFatal>>

\* The report phase failed: send_report raised, or the sender could not be
\* made.
ReportFailed == email = "failed" \/ run_error.at = "report"

\* C13: when the run is over after a failure of the report phase, the error
\* list holds one entry for it, the results and the artifact mapping are the
\* computed ones, the persist phase has written these results and the run
\* has returned them.
C13_ReportFailureContained ==
    (exit_code # <<>> /\ ReportFailed) =>
        /\ Cardinality(ErrorsOf("email")) = 1
        /\ results = ValidResults(1)
        /\ results_file = ResultsDocument(results)
        /\ returned = <<ReturnValue(results, screenshots)>>

\* The part of C13 that holds in every run: when send_report raises, one
\* entry is appended to the error list, the results and the artifact mapping
\* stay as they are, and the persist phase is next.
SendReportFailureRecorded ==
    [][(email # "failed" /\ email' = "failed") =>
          /\ errors' = Append(errors, errors'[Len(errors')])
          /\ errors'[Len(errors')].symbol = "email"
          /\ results' = results
          /\ screenshots' = screenshots
          /\ pc' = "persist"]_vars

\* C14: in a run that ends with a missing-credential error, no capture job
\* and no analysis job has been started.
C14_CredentialsCheckedAtStartup ==
    run_error.kind = "EnvironmentError" =>
        /\ \A i \in Jobs : job[i].pc = "start"
        /\ \A j \in AnalysisJobs : ajob[j].pc = "start"

(***************************************************************************)
(* Properties of the phases and of the capture permits (under Spec).       *)
(***************************************************************************)
\* The report phase has begun; the persist phase has begun.
ReportBegun == email # "none" \/ run_error.at = "report"

PersistBegun ==
    pc \in {"persist", "done"} \/ results_file # <<>> \/ run_error.at = "persist"

\* C15: the phases run in the order capture, analyze, report, persist, each
\* after every job of the phase before it has settled: while an analysis task
\* has been started or the run stands in a later phase, every capture task is
\* done; while the report or the persist phase has begun, every analysis task
\* is done; and the persist phase begins only when the report phase is over.
C15_PhasesInOrder ==
    /\ (pc \in {"analyze", "report", "persist", "done"}
           \/ \E j \in AnalysisJobs : ajob[j].pc # "start")
          => \A i \in Jobs : job[i].pc = "done"
    /\ (pc \in {"report", "persist", "done"} \/ ReportBegun \/ PersistBegun)
          => /\ \A i \in Jobs : job[i].pc = "done"
             /\ \A j \in AnalysisJobs : ajob[j].pc = "done"
    /\ PersistBegun => email \in {"sent", "failed", "skipped"}
    /\ email # "none" => pc \in {"persist", "done", "raised"}

\* A run of two capture jobs and two analysis jobs that sent the report and
\* wrote the results.
C15_Witness ==
    /\ pc = "done"
    /\ Len(tickers) = 2
    /\ Len(ajob) = 2
    /\ email = "sent"
    /\ results_file # <<>>

\* The symbol of job i has been handed to the analysis stage.
PassedToAnalysis(i) == \E j \in AnalysisJobs : screenshots[j].key = tickers[i]

\* Another job of the same symbol captured artifacts.
CapturedByAnother(i) ==
    \E k \in Jobs : k # i /\ tickers[k] = tickers[i] /\ job[k].ret.paths # {}

\* C16: once the capture phase is over, a symbol whose capture job failed has
\* an entry in the error list, has not been handed to the analysis stage
\* (unless another job of the same symbol captured artifacts), and has been
\* captured once only.
C16_FailedCaptureNotAnalysed ==
    pc \in {"analyze", "report", "persist", "done"} =>
        \A i \in Jobs :
            (SessionFailed(i) \/ job[i].ret.tag \in {"error", "raised"}) =>
                /\ ErrorsOf(tickers[i]) # {}
                /\ PassedToAnalysis(i) => CapturedByAnother(i)
                /\ job[i].w.calls <= 1

\* The capture semaphore has been made.
SemaphoreMade == pc \notin {"start", "refused"} /\ run_error.at # "start"

\* C17: the permits held and the permits available are K together at every
\* moment, and when every capture task is done, by return or by cancellation,
\* all K permits are available.
C17_PermitsConserved ==
    SemaphoreMade =>
        /\ semaphore + Cardinality(Holders) = max_concurrent_tickers
        /\ (\A i \in Jobs : job[i].pc = "done") =>
              semaphore = max_concurrent_tickers

\* Two tasks took the two permits; one returned, the other was cancelled
\* while it held its permit, and both permits are available again.
C17_Witness ==
    /\ max_concurrent_tickers = 2
    /\ Len(tickers) = 2
    /\ \A i \in Jobs : job[i].pc = "done"
    /\ \E i \in Jobs : job[i].w.pc = "returned"
    /\ \E i \in Jobs : job[i].w.pc = "raised" /\ job[i].w.raised.kind = "CancelledError"
    /\ semaphore = 2

\* C18: when the capture stage is complete, the symbol of every job is either
\* a key of the artifact mapping, with no error entry, or the symbol of
\* exactly one error entry, and no key.
C18_ExactlyOneOutcome ==
    pc \in {"analyze", "report", "persist", "done"} =>
        \A i \in Jobs :
            \/ /\ DictHas(screenshots, tickers[i])
               /\ Cardinality(ErrorsOf(tickers[i])) = 0
            \/ /\ ~DictHas(screenshots, tickers[i])
               /\ Cardinality(ErrorsOf(tickers[i])) = 1

\* The capture stage is complete for two symbols, one with all its artifacts
\* and one whose session failed.
C18_Witness ==
    /\ pc = "analyze"
    /\ tickers = <<"AAA", "BBB">>
    /\ job[1].ret.paths = Kinds
    /\ SessionFailed(2)
    /\ DictKeys(screenshots) = {"AAA", "BBB"}
    /\ errors = <<>>

\* C19: the run completes for every ticker list and every permit count the
\* command line accepts: as long as main has not returned, the run can take a
\* step of its own (a task acquires a permit, an external call returns or
\* raises, a phase ends), so that no job waits for ever.
C19_RunCompletes == exit_code # <<>> \/ ENABLED Progress

(***************************************************************************)
(* Properties of the analysis permits (under SpecBatch).                   *)
(***************************************************************************)
\* The analyze_with_limit tasks between acquiring and releasing the permit.
AnalysisHolders == { j \in AnalysisJobs : ajob[j].pc = "held" }

\* C20: while analyze_batch runs, at most max_concurrent of its tasks hold
\* a permit of its own semaphore, whose value and holders are max_concurrent
\* together, and the capture semaphore keeps all its permits, whatever their
\* number.
C20_AnalysisPool ==
    pc = "analyze" =>
        /\ Cardinality(AnalysisHolders) <= max_concurrent
        /\ analysis_semaphore + Cardinality(AnalysisHolders) = max_concurrent
        /\ semaphore = max_concurrent_tickers

\* With one capture permit and max_concurrent = 2, two requests are in
\* flight and a third task waits for an analysis permit.
C20_Witness ==
    /\ pc = "analyze"
    /\ max_concurrent_tickers = 1
    /\ max_concurrent = 2
    /\ Cardinality(AnalysisHolders) = 2
    /\ \A j \in AnalysisHolders : ajob[j].w.pc = "call"
    /\ \E j \in AnalysisJobs : ajob[j].pc = "start"
    /\ analysis_semaphore = 0

(***************************************************************************)
(* Properties of _parse_response (under SpecParse).                        *)
(***************************************************************************)
\* The text is not in the structured format: no JSON object can be read
\* from it.
Unparseable(resp) == resp.form # "object"

\* The fallback result for a text and a symbol, as the specification words
\* it.
FallbackFor(resp, symbol) ==
    [symbol |-> symbol, primary_trend |-> "UNKNOWN",
     secondary_trend |-> "UNKNOWN", signal |-> "HOLD", confidence |-> "LOW",
     summary |-> Text("response",
                      IF resp.len <= SummaryLimit THEN resp.len ELSE SummaryLimit),
     raw_response |-> Text("response", resp.len)]

\* C21: for every response text that cannot be parsed as the structured
\* format, parsing does not raise and yields the fallback result: signal
\* HOLD, confidence LOW, unknown trends, and as summary the raw response when
\* it has at most 500 characters and its first 500 characters otherwise.
C21_MalformedNeverRaises ==
    (parse_out.done /\ Unparseable(response_text))
        => /\ parse_out.raised = "None"
           /\ parse_out.result = FallbackFor(response_text, "AAA")

\* The part of C21 that the code keeps: when no "{...}" is found, or
\* json.loads raises JSONDecodeError, the fallback result is returned.
DecodeErrorFallsBack ==
    (parse_out.done /\ response_text.form \in {"plain", "braces"})
        => /\ parse_out.raised = "None"
           /\ parse_out.result = FallbackFor(response_text, "AAA")

(***************************************************************************)
(* Properties of analyze_batch (under SpecBatch).                          *)
(***************************************************************************)
\* The analysis tasks that returned a result.
SucceededAnalyses == { j \in AnalysisJobs : ajob[j].w.pc = "returned" }

\* The number of requests a task has made.
Requests(j) == ajob[j].w.calls

\* C22: in analyze_batch a symbol whose analysis fails, after at most 3
\* requests, never prevents the other analyses from completing: while the
\* batch runs some task can take a step or the batch can return, and when it
\* has returned the list holds, in the order of the symbols, the result of
\* every task that succeeded and nothing for a task that failed.
C22_BatchIsolation ==
    /\ pc = "analyze" => ENABLED NextBatch
    /\ \A j \in AnalysisJobs :
          ajob[j].w.pc = "raised" => Requests(j) \in 1..AnalyzeMaxAttempts
    /\ pc = "report" =>
          /\ AnalysisJobs = SucceededAnalyses \cup
                              { j \in AnalysisJobs : ajob[j].w.pc = "raised" }
          /\ Len(results) = Cardinality(SucceededAnalyses)
          /\ \A j \in SucceededAnalyses :
                results[Cardinality({ i \in SucceededAnalyses : i <= j })]
                    = ajob[j].result

\* The first symbol's analysis failed after three requests, the second one
\* failed at once with an error that is not retried, and the third one's
\* result is the returned list.
C22_Witness ==
    /\ pc = "report"
    /\ Len(ajob) = 3
    /\ ajob[1].w.pc = "raised" /\ Requests(1) = AnalyzeMaxAttempts
    /\ ajob[2].w.pc = "raised" /\ Requests(2) = 1
    /\ ajob[3].w.pc = "returned"
    /\ results = <<ajob[3].result>>
    /\ results[1].symbol = "CCC"

(***************************************************************************)
(* Properties of the exit code of main (under Spec).                       *)
(***************************************************************************)
\* Every process_ticker task ended without an artifact.
AllJobsFailed ==
    \A i \in Jobs : job[i].pc = "done" /\ job[i].ret.paths = {}

ArtifactsOfJobs ==
    Aggregate(1, [screenshots |-> <<>>, errors |-> <<>>]).screenshots

\* C24: in a dry run no analysis task is made and no request is sent, no
\* report is sent, no credential is asked for, and the artifact mapping that
\* the run returns is the one the outcomes of its capture jobs give, which
\* is also what a run that is not dry returns.
C24_DryRun ==
    /\ dry_run =>
          /\ pc # "analyze"
          /\ ajob = <<>>
          /\ results = <<>>
          /\ email \in {"none", "skipped"}
          /\ run_error.kind # "EnvironmentError"
    /\ returned # <<>> => returned[1].screenshots = ArtifactsOfJobs

\* A dry run of two tickers with captured artifacts has returned them, with
\* no result, no report and no results file.
C24_Witness ==
    /\ dry_run
    /\ send_email
    /\ Len(tickers) = 2
    /\ returned # <<>>
    /\ \E k \in DOMAIN returned[1].screenshots :
          returned[1].screenshots[k].val # {}
    /\ returned[1].results = <<>>
    /\ email = "skipped"
    /\ results_file = <<>>

(***************************************************************************)
(* Properties of the results document (under Spec).                        *)
(***************************************************************************)
\* The AnalysisResult built from a persisted object: each field from the key
\* of its name, and nothing for a field the object has no key for.
Rebuilt(obj) ==
    [f \in ResultFields |-> IF f \in DOMAIN obj THEN obj[f] ELSE AbsentText]

Ended(w) == w.pc \in {"returned", "raised"}

\* C26: for the same policy and the same outcomes of the wrapped function,
\* the blocking and the async wrapper make the same number of invocations,
\* the same waits and warnings in the same order, and end in the same way,
\* with the same returned value or raised error; and while the async wrapper
\* waits, another task of the event loop can take its step.
C26_WrappersEquivalent ==
    /\ (Ended(wrapper) /\ Ended(blocking)) =>
          /\ wrapper.calls = blocking.calls
          /\ wrapper.history = blocking.history
          /\ wrapper.waits = blocking.waits
          /\ wrapper.warnings = blocking.warnings
          /\ wrapper.pc = blocking.pc
          /\ wrapper.raised = blocking.raised
    /\ (wrapper.pc = "sleep" /\ peer.async = "ready") => ENABLED AsyncPeerSteps

\* Both calls ended after three invocations and two growing waits, raising
\* the error of the third invocation; the peer of the async wrapper has taken
\* its step, the peer of the blocking one has not.
C26_Witness ==
    /\ retry_policy.max_attempts = 3 /\ retry_policy.backoff = 2
    /\ Ended(wrapper) /\ Ended(blocking)
    /\ wrapper.calls = 3 /\ blocking.calls = 3
    /\ wrapper.waits = <<retry_policy.delay, 2 * retry_policy.delay>>
    /\ blocking.waits = wrapper.waits
    /\ wrapper.raised.call = 3 /\ blocking.raised.call = 3
    /\ peer.async = "done"
    /\ peer.blocking = "ready"

(***************************************************************************)
(* Properties of the order of the aggregation (under Spec).                *)
(***************************************************************************)
\* The capture results have been aggregated.
Aggregated == pc \in {"analyze", "report", "persist", "done"}

\* The jobs whose result is a (symbol, paths) pair.
PathJobs == { i \in Jobs : job[i].ret.tag = "paths" }

\* The jobs whose result goes to the error list.
ErrorJobs == { i \in Jobs : job[i].ret.tag \in {"error", "raised"} }

\* An entry of the error list that a capture job gave (the report adds one
\* under "email").
IsJobError(e) == e.symbol # "email"

JobErrors == SelectSeq(errors, IsJobError)

\* The place of the first job for a symbol among the jobs in S.
FirstOf(symbol, S) ==
    CHOOSE i \in S : tickers[i] = symbol /\ \A h \in S : tickers[h] = symbol => i <= h

\* C27: the aggregation is a function of the ticker list and the outcomes
\* of the jobs, whatever the order in which the jobs completed: the keys of
\* the artifact mapping are the symbols of the jobs that returned paths, in
\* the order of their first place in the ticker list; the error list has the
\* failed jobs in ticker order, before the entry of the report if there is
\* one; and the results follow the order of the keys of the artifact mapping.
C27_DeterministicOrder ==
    Aggregated =>
        /\ DictKeys(screenshots) = { tickers[i] : i \in PathJobs }
        /\ \A a, b \in 1..Len(screenshots) :
              a < b => FirstOf(screenshots[a].key, PathJobs)
                          < FirstOf(screenshots[b].key, PathJobs)
        /\ Len(JobErrors) = Cardinality(ErrorJobs)
        /\ \A n \in 1..Len(errors) :
              ~IsJobError(errors[n]) => n = Len(errors)
        /\ \A i \in ErrorJobs :
              errors[Cardinality({ h \in ErrorJobs : h <= i })].error
                  = job[i].ret.error
        /\ pc \in {"report", "persist", "done"} =>
              /\ Len(results) = Cardinality(SucceededAnalyses)
              /\ \A j \in SucceededAnalyses :
                    results[Cardinality({ h \in SucceededAnalyses : h <= j })]
                        = ajob[j].result

\* Both tickers were captured and analysed: the mapping and the results are
\* in ticker order.
C27_Witness ==
    /\ pc = "done"
    /\ tickers = <<"AAA", "BBB">>
    /\ max_concurrent_tickers = 2
    /\ Len(screenshots) = 2
    /\ screenshots[1].key = "AAA" /\ screenshots[2].key = "BBB"
    /\ Len(results) = 2
    /\ results[1].symbol = "AAA" /\ results[2].symbol = "BBB"

\* The jobs complete in either order: the second job is done while the
\* first one still holds its permit.
CompletesOutOfOrder ==
    /\ pc = "capture"
    /\ tickers = <<"AAA", "BBB">>
    /\ job[2].pc = "done" /\ job[2].ret.tag = "paths"
    /\ job[1].pc = "held"

(***************************************************************************)
(* Properties of the pages of capture (under SpecBrowser).                 *)
(***************************************************************************)
\* The sub-captures that hold a context, and those that hold a page.
WithContext == { s \in DOMAIN sub : sub[s].context # NoContext }

WithPage == { s \in DOMAIN sub : sub[s].page # NoPage }

\* C28: the page of a sub-capture lives in the context made for it, which
\* no other sub-capture of any job holds or has a page in, and when the
\* sub-capture is over, however its body ended, its page and its context
\* are closed.
C28_ContextsIsolatedAndClosed ==
    /\ \A s \in WithPage : sub[s].page.context = sub[s].context
    /\ \A s, t \in WithContext : s # t => sub[s].context # sub[t].context
    /\ \A p \in browser_pages :
          /\ p.context \in browser_contexts
          /\ Cardinality({ s \in WithPage : sub[s].page = p }) = 1
    /\ \A c \in browser_contexts :
          Cardinality({ s \in WithContext : sub[s].context = c }) = 1
    /\ \A s \in DOMAIN sub :
          sub[s].pc = "done" =>
              /\ sub[s].context \notin browser_contexts
              /\ sub[s].page \notin browser_pages

\* The four sub-captures of two symbols are over: one body returned, one
\* raised, one was cancelled, and one never got its page; nothing is open.
C28_Witness ==
    /\ \A s \in DOMAIN sub : sub[s].pc = "done"
    /\ DOMAIN sub = SubCaptures
    /\ sub[<<"AAA", "candlestick">>].exit = "return"
    /\ sub[<<"AAA", "pnf">>].exit = "exception"
    /\ sub[<<"BBB", "candlestick">>].exit = "cancelled"
    /\ sub[<<"BBB", "pnf">>].exit = "no_page"
    /\ WithContext = SubCaptures
    /\ browser_contexts = {}
    /\ browser_pages = {}

(***************************************************************************)
(* Properties of the writers of files and of the aggregation (under Spec). *)
(***************************************************************************)
\* The part of C29 about the aggregation: while the capture jobs run,
\* nothing has been written to the artifact mapping or to the error list;
\* the loop after the gather writes them.
AggregationWrittenAfterSettle ==
    pc \in {"start", "capture"} => screenshots = <<>> /\ errors = <<>>

\* C29: at no instant do two capture jobs that are under way write the same
\* artifact file, and the artifact mapping and the error list are written
\* only after the jobs have settled.
C29_NoConcurrentWriters ==
    /\ \A i, h \in Jobs :
          i # h => FilesInFlight(i) \cap FilesInFlight(h) = {}
    /\ AggregationWrittenAfterSettle

(***************************************************************************)
(* Properties of the interrupt (under Spec).                               *)
(***************************************************************************)
\* The part of C30 about the exit code: an interrupted run ends with 130.
InterruptedRunExits ==
    (interrupted /\ exit_code # <<>>) => exit_code = <<ExitInterrupted>>

\* C30: once the interrupt has cancelled the run, a task that has no permit
\* never takes one, a task that holds a permit takes no further capture
\* step (its sub-captures stay as they are until the task is done), and
\* when the process exits it exits with 130.
C30_InterruptStopsJobs ==
    [][ interrupted =>
          /\ \A i \in Jobs :
                /\ job[i].pc = "start" => job'[i].pc \in {"start", "done"}
                /\ job[i].pc = "held" =>
                      \/ job'[i].pc = "done"
                      \/ /\ job'[i].candle = job[i].candle
                         /\ job'[i].pnf = job[i].pnf
          /\ exit_code' # <<>> => exit_code' = <<ExitInterrupted>> ]_vars

\* The part of C30 that the code keeps: after the interrupt no task takes a
\* permit, and the sub-capture of the point and figure charts takes no
\* further step.
NoCaptureStartsAfterInterrupt ==
    [][ interrupted =>
          \A i \in Jobs :
              /\ job[i].pc = "start" => job'[i].pc \in {"start", "done"}
              /\ job[i].pc = "held" =>
                    (job'[i].pc = "done" \/ job'[i].pnf = job[i].pnf) ]_vars

(***************************************************************************)
(* Properties of the warnings of the retry wrapper (under SpecRetry).      *)
(***************************************************************************)
\* The invocations that failed with an error the policy catches and were not
\* the last one the policy allows: those that another attempt follows.
RetriedCalls ==
    { n \in 1..Len(wrapper.history) :
        /\ wrapper.history[n] # "return"
        /\ Retryable(wrapper.history[n])
        /\ n < retry_policy.max_attempts }

\* C31: the wrapper has emitted exactly one warning for each failed
\* retryable attempt that another attempt follows, and none for a success, a
\* failure that is not retried or the last failure; the warning of a retry
\* is out when its wait begins, so that warnings and waits begun are equal
\* in number at every moment.
C31_OneWarningPerRetry ==
    /\ wrapper.warnings = Cardinality(RetriedCalls)
    /\ wrapper.warnings = Len(wrapper.waits)
    /\ wrapper.pc = "sleep" => wrapper.warnings = wrapper.calls
    /\ wrapper.pc = "call" => wrapper.warnings = wrapper.calls - 1
    /\ wrapper.pc \in {"returned", "raised"} =>
          wrapper.warnings = Len(wrapper.history) - 1
          \/ (wrapper.warnings = 0 /\ wrapper.history = <<>>)

\* Two retried failures, each with its warning, then a success with none.
C31_Witness ==
    /\ retry_policy.max_attempts = 3
    /\ wrapper.pc = "returned"
    /\ Len(wrapper.history) = 3
    /\ wrapper.history[3] = "return"
    /\ wrapper.warnings = 2
    /\ Len(wrapper.waits) = 2

(***************************************************************************)
(* Properties of the symbol of a result (under SpecAnswers).               *)
(***************************************************************************)
\* The result is the fallback of _parse_response.
Degraded(r) == r.primary_trend = "UNKNOWN" /\ r.signal = "HOLD"

\* The part of C32 about the degraded path: a fallback result carries the
\* symbol of its job.
DegradedCarriesJobSymbol ==
    \A j \in AnalysisJobs :
        (ajob[j].w.pc = "returned" /\ Degraded(ajob[j].result))
            => ajob[j].result.symbol = screenshots[j].key

\* C32: every result of the run carries the symbol of the job whose
\* artifacts were analysed, parsed or degraded, so that the report finds the
\* artifacts of the result under result.symbol in the artifact mapping.
C32_ResultCarriesJobSymbol ==
    /\ \A j \in AnalysisJobs :
          ajob[j].w.pc = "returned" => ajob[j].result.symbol = screenshots[j].key
    /\ \A k \in 1..Len(results) : DictHas(screenshots, results[k].symbol)

\* The wrapper has ended with an error that one of its invocations of the
\* wrapped function raised.
RaisedByFunc ==
    /\ wrapper.raised.call \in 1..Len(wrapper.history)
    /\ wrapper.history[wrapper.raised.call] = wrapper.raised.kind

\* For a policy with max_attempts >= 1 the wrapped function is invoked and an
\* error of the wrapper is an error of the function.
InvokedWhenPositive ==
    (retry_policy.max_attempts >= 1 /\ wrapper.pc \in {"returned", "raised"}) =>
        /\ wrapper.calls >= 1
        /\ wrapper.pc = "raised" => RaisedByFunc

\* C33: for every retry policy, max_attempts of 0 included, a call of the
\* wrapper that has ended invoked the wrapped function at least once, and the
\* error it raised, if any, was raised by one of those invocations.
C33_InvokesAtLeastOnce ==
    wrapper.pc \in {"returned", "raised"} =>
        /\ wrapper.calls >= 1
        /\ wrapper.pc = "raised" => RaisedByFunc

\* C34: when the wrapped function raised retryable errors on its first k-1
\* calls and returned on call k <= max_attempts, the wrapper has returned
\* after exactly k invocations and k-1 waits and makes no further step; and
\* after fewer than max_attempts failures, all retryable, the wrapper has not
\* given up, so that call k is made.
C34_SucceedsOnCallK ==
    LET h == wrapper.history
    IN  /\ \A k \in 1..Len(h) :
              h[k] = "return" =>
                  /\ k = Len(h)
                  /\ k <= retry_policy.max_attempts
                  /\ \A n \in 1..(k - 1) : Retryable(h[n])
                  /\ wrapper.pc = "returned"
                  /\ wrapper.calls = k
                  /\ Len(wrapper.waits) = k - 1
                  /\ ~ENABLED NextRetry
        /\ (AlwaysFailing /\ Len(h) < retry_policy.max_attempts) =>
              /\ wrapper.pc \in {"call", "sleep"}
              /\ wrapper.pc = "call" => wrapper.calls = Len(h) + 1
              /\ wrapper.pc = "sleep" => wrapper.calls = Len(h)

\* Two retryable failures, then the third and last allowed call returns.
C34_Witness ==
    /\ retry_policy.max_attempts = 3
    /\ wrapper.history = <<"APIError", "APIError", "return">>
    /\ wrapper.pc = "returned"
    /\ wrapper.calls = 3
    /\ Len(wrapper.waits) = 2

\* The analyze_with_limit tasks inside the retry sequence of analyze: a
\* request is in flight or the wrapper waits in its backoff.
InRetrySequence ==
    { j \in AnalysisJobs : ajob[j].w.pc \in {"call", "sleep"} }

\* C35: a task holds its permit from the first request to the final outcome
\* of analyze, every backoff wait included: a task whose wrapper is calling or
\* sleeping holds a permit, a task waiting for a permit has made no request,
\* a task without a permit that made requests has its final outcome, and the
\* permits left are max_concurrent less the tasks in their retry sequence,
\* those in backoff counted.
C35_PermitKeptThroughRetries ==
    pc = "analyze" =>
        /\ InRetrySequence = { j \in AnalysisJobs : ajob[j].pc = "held" }
        /\ \A j \in AnalysisJobs :
              /\ ajob[j].pc = "start" => ajob[j].w = IdleWrapper
              /\ ajob[j].pc = "done" => ajob[j].w.pc \in {"returned", "raised"}
        /\ analysis_semaphore = max_concurrent - Cardinality(InRetrySequence)
        /\ Cardinality(InRetrySequence) <= max_concurrent

\* One permit: the first task waits in its second backoff, after two
\* requests, and the second task still waits for the permit.
C35_Witness ==
    /\ pc = "analyze"
    /\ max_concurrent = 1
    /\ Len(ajob) >= 2
    /\ ajob[1].pc = "held"
    /\ ajob[1].w.pc = "sleep"
    /\ ajob[1].w.calls = 2
    /\ Len(ajob[1].w.waits) = 2
    /\ ajob[2].pc = "start"
    /\ ~ENABLED AnalyzeAcquire(2)
    /\ analysis_semaphore = 0

(***************************************************************************)
(* Properties of the browser of a run (under SpecPool).                    *)
(***************************************************************************)
\* The contexts that the sub-captures of a task have open.
ContextsOf(i) == { c \in browser_contexts : c[1] = i }

\* C36: with a capture permit count K >= 0, never more than 2*K contexts are
\* open in the browser: only a task holding a permit has contexts open, at
\* most one for each of its two sub-captures; and once the capture phase is
\* over, however it ended, no context and no page is open.
C36_ContextsBounded ==
    /\ max_concurrent_tickers >= 0 =>
          Cardinality(browser_contexts) <= 2 * max_concurrent_tickers
    /\ \A i \in Jobs :
          /\ Cardinality(ContextsOf(i)) <= Cardinality(SubKinds)
          /\ ContextsOf(i) # {} => job[i].pc = "held"
    /\ pc # "capture" =>
          /\ browser_contexts = {}
          /\ browser_pages = {}

\* One permit and two tasks: the holder has both its contexts open, which
\* is the bound, and the other task waits.
C36_Witness ==
    /\ pc = "capture"
    /\ max_concurrent_tickers = 1
    /\ Cardinality(browser_contexts) = 2
    /\ job[1].pc = "start"
    /\ job[2].pc = "held"
    /\ ContextsOf(2) = browser_contexts

(***************************************************************************)
(* Properties of the browser's lifetime in a run (under Spec).             *)
(***************************************************************************)
\* The process_ticker tasks that have begun: they hold the permit or are
\* over.
StartedJobs == { i \in Jobs : job[i].pc # "start" }

\* C39: a process_ticker task begins only once the browser is started and
\* runs only while it is; the browser is stopped only when no task is
\* running, every task being over unless the run was rejected before the
\* tasks were made; no analysis request is made and no later phase is
\* reached before the browser is stopped; and a run that left the capture
\* phase by an exception (the rejected semaphore) or by its cancellation has
\* stopped the browser.
C39_BrowserLifetime ==
    /\ browser \in {"none", "started", "stopped"}
    /\ StartedJobs # {} => browser \in {"started", "stopped"}
    /\ \A i \in Jobs : job[i].pc = "held" => browser = "started"
    /\ pc = "capture" <=> browser = "started"
    /\ browser = "stopped" =>
          \/ AllSettled(job)
          \/ (StartedJobs = {} /\ run_error.kind = "ValueError")
    /\ pc \in {"analyze", "report", "persist", "done"} => browser = "stopped"
    /\ \A j \in AnalysisJobs : ajob[j].pc # "start" => browser = "stopped"
    /\ (pc = "raised" /\ run_error.kind \in {"ValueError", "KeyboardInterrupt"}) =>
          browser = "stopped"
    /\ browser = "none" => pc \in {"start", "refused", "raised"}

\* A cancelled run: one task had returned its artifacts, the other one was
\* cancelled while it held the permit, and the browser is stopped.
C39_Witness ==
    /\ run_error.kind = "KeyboardInterrupt"
    /\ browser = "stopped"
    /\ Len(job) = 2
    /\ job[1].ret.tag = "paths"
    /\ job[2].ret.tag = "raised"
    /\ job[2].w.calls = 1

(***************************************************************************)
(* Properties of the artifact set of capture (under SpecCapture).          *)
(***************************************************************************)
\* The kinds whose save reported success in the call of capture.
SavedKinds == capture_call.candle.saved \cup capture_call.pnf.saved

\* A kind is a key of the returned set only if its save reported success, and
\* what a sub-capture that returned had saved is in the set whatever became
\* of the other sub-capture and of its own other artifact.
ReturnedSubCapturesKept ==
    capture_call.merged # <<>> =>
        /\ capture_call.merged[1] \subseteq SavedKinds
        /\ \A c \in {capture_call.candle, capture_call.pnf} :
              c.pc = "dict" => c.saved \subseteq capture_call.merged[1]

\* C37: the artifact set returned by capture is the union of what its two
\* sub-captures saved: every kind whose save reported success is a key of it,
\* and no other kind is.
C37_UnionOfSaved ==
    capture_call.merged # <<>> => capture_call.merged[1] = SavedKinds

(***************************************************************************)
(* Properties of the error entries of the capture phase (under SpecMain).  *)
(***************************************************************************)
\* The symbols of the tasks that returned (symbol, exception).
FailedSymbols == { tickers[i] : i \in { n \in Jobs : job[n].ret.tag = "error" } }

\* C38: no entry of errors is recorded under "unknown" and every entry
\* carries the symbol of a task that ended with an exception: a task ends
\* outside its try only for an entry without "symbol", and with such an
\* entry main ends before the run is started.
C38_NoUnknownEntry ==
    /\ \A n \in 1..Len(errors) :
          /\ errors[n].symbol # "unknown"
          /\ errors[n].symbol \in FailedSymbols
    /\ \A i \in Jobs : job[i].ret.tag # "raised"
    /\ (\E i \in Jobs : tickers[i] = NoSymbol) => pc \in {"main", "raised"}

\* The capture phase of two tickers is over and aggregated; every
\* sub-capture of the second task had raised.
C38_Witness ==
    /\ pc = "report"
    /\ Len(job) = 2
    /\ job[2].candle = Raised
    /\ job[2].pnf = Raised
    /\ job[2].ret.tag = "paths"
    /\ errors = <<>>

(***************************************************************************)
(* Properties of the pairing in analyze_batch (under SpecBatch).           *)
(***************************************************************************)
\* The analysis tasks whose analyze raised.
RaisedAnalyses == { j \in AnalysisJobs : ajob[j].w.pc = "raised" }

\* The place of task j among the tasks of the set that are not after it.
RankIn(tasks, j) == Cardinality({ i \in tasks : i <= j })

\* C40: when analyze_batch returns, the outcome of the j-th task is paired
\* with the j-th key: each failure is logged once, under the key of the task
\* that failed and with its error, the failures in the order of the keys;
\* the returned list holds the results of the other tasks in the order of
\* the keys, so its length is the number of symbols whose analysis succeeded.
C40_OutcomesPairedWithKeys ==
    pc = "report" =>
        /\ Len(ajob) = Len(screenshots)
        /\ Len(analysis_log) = Cardinality(RaisedAnalyses)
        /\ \A j \in RaisedAnalyses :
              analysis_log[RankIn(RaisedAnalyses, j)] =
                  [symbol |-> screenshots[j].key, error |-> ajob[j].w.raised.kind]
        /\ Len(results) = Len(ajob) - Cardinality(RaisedAnalyses)
        /\ \A j \in AnalysisJobs \ RaisedAnalyses :
              /\ ajob[j].w.pc = "returned"
              /\ results[RankIn(AnalysisJobs \ RaisedAnalyses, j)] = ajob[j].result

\* Three symbols: the analysis of the second one failed after three
\* requests and is logged under BBB; the list holds the results of the first
\* and the third.
C40_Witness ==
    /\ pc = "report"
    /\ Len(ajob) = 3
    /\ RaisedAnalyses = {2}
    /\ ajob[2].w.calls = AnalyzeMaxAttempts
    /\ analysis_log = <<[symbol |-> "BBB", error |-> "APIError"]>>
    /\ Len(results) = 2
    /\ results[1].symbol = "AAA"
    /\ results[2].symbol = "CCC"

====
